---- MODULE Spec2Model ----
(***************************************************************************)
(* Verification model of azure-spot-finder: the recommendation / scoring   *)
(* engine (api/services/recommendation_service.py), the SKU service        *)
(* (api/services/sku_service.py) with its cache (api/utils/cache.py) and   *)
(* pricing source (api/clients/pricing_client.py), the SKU normalizers     *)
(* (api/clients/compute_client.py, api/clients/client.py,                  *)
(* backend/app/azure_client.py) and the recommendations endpoint           *)
(* (api/routes/sku_routes.py).                                             *)
(*                                                                         *)
(* Encoding.  Python floats are modelled as exact rationals <<n, d>> with  *)
(* d > 0, kept in lowest terms.  Prices are integers (thousandths of a     *)
(* currency unit), memory is an integer number of GB.  A Python None is    *)
(* the number None (-1) for numeric fields, which no price, vcpus or       *)
(* memory value takes, and the string NoneStr for string fields.           *)
(* recommendation_score is an integer number of thousandths (the code      *)
(* rounds it to three decimals).                                           *)
(***************************************************************************)
EXTENDS Integers, Sequences, FiniteSets, TLC

None == -1
NoneStr == "None"

(***************************************************************************)
(* Bounds of the model.                                                    *)
(***************************************************************************)
MaxPool == 3
MaxCatalog == 2
MaxRuns == 3
MaxItems == 3

\* the number of concurrent list_spot_skus calls
MaxCalls == 2

\* the number of tokens the credential issues
MaxTokens == 3

\* the number of clock ticks (of 100 seconds) that pass
MaxTicks == 5

\* the number of calls made on the dependency container
MaxContainerOps == 4

(***************************************************************************)
(* Rational arithmetic.                                                    *)
(***************************************************************************)
RECURSIVE GCD(_, _)
GCD(a, b) == IF b = 0 THEN a ELSE GCD(b, a % b)

Abs(x) == IF x < 0 THEN 0 - x ELSE x

Rat(n, d) ==
    LET g == GCD(Abs(n), d)
    IN  IF n = 0 THEN <<0, 1>> ELSE <<n \div g, d \div g>>

RatAdd(a, b) ==
    LET g == GCD(a[2], b[2])
    IN  Rat(a[1] * (b[2] \div g) + b[1] * (a[2] \div g), (a[2] \div g) * b[2])

RatSub(a, b) == RatAdd(a, <<0 - b[1], b[2]>>)

RatMul(a, b) ==
    LET g1 == GCD(Abs(a[1]), b[2])
        g2 == GCD(Abs(b[1]), a[2])
        h1 == IF g1 = 0 THEN 1 ELSE g1
        h2 == IF g2 = 0 THEN 1 ELSE g2
    IN  Rat((a[1] \div h1) * (b[1] \div h2), (a[2] \div h2) * (b[2] \div h1))

\* a / b for b > 0
RatDiv(a, b) == RatMul(a, <<b[2], b[1]>>)

RatLE(a, b) == a[1] * b[2] <= b[1] * a[2]
RatLT(a, b) == a[1] * b[2] < b[1] * a[2]

RatMax(S) == CHOOSE x \in S : \A y \in S : RatLE(y, x)
RatMin(S) == CHOOSE x \in S : \A y \in S : RatLE(x, y)

SetMax(S) == CHOOSE x \in S : \A y \in S : y <= x
SetMin(S) == CHOOSE x \in S : \A y \in S : x <= y

Min(a, b) == IF a < b THEN a ELSE b
Max(a, b) == IF a > b THEN a ELSE b

\* max(0.0, min(1.0, normalized))
Clamp01(r) ==
    IF r[1] < 0 THEN <<0, 1>> ELSE IF r[1] > r[2] THEN <<1, 1>> ELSE r

\* round(x, 3) in thousandths: nearest, an exact tie goes to the even
\* neighbour (Python's round).  The code rounds a binary float, which for
\* an exact decimal tie lies just below or just above it, so on a tie the
\* code's last digit may differ by one from this value; away from ties the
\* two agree.
Round3(r) ==
    LET n == 1000 * r[1]
        q == n \div r[2]
        m == n % r[2]
    IN  IF 2 * m < r[2] THEN q
        ELSE IF 2 * m > r[2] THEN q + 1
        ELSE IF q % 2 = 0 THEN q ELSE q + 1

(***************************************************************************)
(* Candidate records (the dicts that list_spot_skus returns, with the      *)
(* eviction_rate enrichment that the scorer reads).                        *)
(***************************************************************************)
Sku(name, price, ev, vcpus, mem, zones, arch) ==
    [name |-> name, price |-> price, eviction_rate |-> ev, vcpus |-> vcpus,
     memory_gb |-> mem, zones |-> zones, architecture |-> arch]

EvictionBuckets == <<"0-5", "5-10", "10-15", "15-20", "20+">>
KnownBuckets == {EvictionBuckets[i] : i \in DOMAIN EvictionBuckets}

\* The candidates the pools are drawn from.  S1 and S2 differ in price,
\* bucket and architecture; S4 and S5 differ in price only and carry no
\* eviction rate and no vcpus/memory; S6 is far more expensive, in the worst
\* bucket; S7 has no price and a bucket string outside the five buckets; S8
\* has vcpus = 0 and memory_gb = 0; S9 has no zone data.
SkuUniverse ==
    { Sku("S1", 1,    "0-5",   2,    8,    {"1", "2"},      "x64"),
      Sku("S2", 2,    "5-10",  2,    8,    {"1", "2"},      "Arm64"),
      Sku("S4", 1,    NoneStr, None, None, {"1", "2", "3"}, "x64"),
      Sku("S5", 2,    NoneStr, None, None, {"1", "2", "3"}, "x64"),
      Sku("S6", 700,  "20+",   2,    8,    {"1"},           "Arm64"),
      Sku("S7", None, "30+",   1,    4,    {"1"},           "x64"),
      Sku("S8", 3,    "10-15", 0,    0,    {"1", "2"},      "x64"),
      Sku("S9", 1,    "0-5",   2,    8,    {},              "x64") }

(***************************************************************************)
(* RecommendationCriteria                                                  *)
(***************************************************************************)
Modes == {"cost", "reliability", "performance", "balanced"}

\* weights in hundredths: <<price, eviction, performance, availability,
\* architecture>>
DefaultWeights == <<35, 25, 20, 10, 10>>

Criteria(mode, pref, w, maxCost, maxEv, minZones) ==
    [optimize_for |-> mode, architecture_preference |-> pref,
     price_weight |-> w[1], eviction_weight |-> w[2],
     performance_weight |-> w[3], availability_weight |-> w[4],
     architecture_weight |-> w[5],
     max_hourly_cost |-> maxCost, max_eviction_rate |-> maxEv,
     min_availability_zones |-> minZones]

(***************************************************************************)
(* RecommendationService                                                   *)
(***************************************************************************)
rate_to_number(rate) ==
    IF rate = "0-5" THEN 25
    ELSE IF rate = "5-10" THEN 75
    ELSE IF rate = "10-15" THEN 125
    ELSE IF rate = "15-20" THEN 175
    ELSE IF rate = "20+" THEN 250
    ELSE 500

_is_eviction_rate_acceptable(actual_rate, max_rate) ==
    rate_to_number(actual_rate) <= rate_to_number(max_rate)

\* variant in which the cost ceiling also drops a candidate without a price
PassesConstraintsPricedOnly(sku, criteria) ==
    /\ sku.zones # {}
    /\ ~(Cardinality(sku.zones) < criteria.min_availability_zones)
    /\ ~(/\ criteria.max_hourly_cost # None
         /\ (sku.price = None \/ sku.price > criteria.max_hourly_cost))
    /\ ~(/\ criteria.max_eviction_rate # NoneStr
         /\ sku.eviction_rate # NoneStr
         /\ ~_is_eviction_rate_acceptable(sku.eviction_rate,
                                          criteria.max_eviction_rate))

\* whether _apply_constraints keeps this sku
PassesConstraints(sku, criteria) ==
    /\ sku.zones # {}
    /\ ~(Cardinality(sku.zones) < criteria.min_availability_zones)
    /\ ~(/\ criteria.max_hourly_cost # None
         /\ sku.price # None
         /\ sku.price > criteria.max_hourly_cost)
    /\ ~(/\ criteria.max_eviction_rate # NoneStr
         /\ sku.eviction_rate # NoneStr
         /\ ~_is_eviction_rate_acceptable(sku.eviction_rate,
                                          criteria.max_eviction_rate))

_apply_constraints(skus, criteria) ==
    SelectSeq(skus, LAMBDA sku : PassesConstraints(sku, criteria))

\* variant with the inversion forgotten: a higher price scores higher
_calculate_price_score_not_inverted(sku, all_skus) ==
    LET prices == {all_skus[i].price : i \in DOMAIN all_skus} \ {None}
    IN  IF sku.price = None THEN <<1, 2>>
        ELSE IF prices = {} THEN <<1, 2>>
        ELSE IF SetMax(prices) = SetMin(prices) THEN <<1, 1>>
        ELSE Clamp01(Rat(sku.price - SetMin(prices),
                         SetMax(prices) - SetMin(prices)))

\* variant in which a pool of equal prices scores the neutral 0.5
_calculate_price_score_equal_is_neutral(sku, all_skus) ==
    LET prices == {all_skus[i].price : i \in DOMAIN all_skus} \ {None}
    IN  IF sku.price = None THEN <<1, 2>>
        ELSE IF prices = {} THEN <<1, 2>>
        ELSE IF SetMax(prices) = SetMin(prices) THEN <<1, 2>>
        ELSE Clamp01(Rat(SetMax(prices) - sku.price,
                         SetMax(prices) - SetMin(prices)))

_calculate_price_score(sku, all_skus) ==
    LET prices == {all_skus[i].price : i \in DOMAIN all_skus} \ {None}
    IN  IF sku.price = None THEN <<1, 2>>
        ELSE IF prices = {} THEN <<1, 2>>
        ELSE IF SetMax(prices) = SetMin(prices) THEN <<1, 1>>
        ELSE Clamp01(Rat(SetMax(prices) - sku.price,
                         SetMax(prices) - SetMin(prices)))

_calculate_eviction_score(sku) ==
    IF sku.eviction_rate = NoneStr THEN Rat(3, 10)
    ELSE IF sku.eviction_rate = "0-5" THEN Rat(10, 10)
    ELSE IF sku.eviction_rate = "5-10" THEN Rat(8, 10)
    ELSE IF sku.eviction_rate = "10-15" THEN Rat(6, 10)
    ELSE IF sku.eviction_rate = "15-20" THEN Rat(4, 10)
    ELSE IF sku.eviction_rate = "20+" THEN Rat(2, 10)
    ELSE Rat(1, 10)

\* price, vcpus and memory_gb all present
HasComputeData(sku) ==
    sku.price # None /\ sku.vcpus # None /\ sku.memory_gb # None

\* compute_units = vcpus + memory_gb / 4, in quarters
ComputeUnits4(sku) == 4 * sku.vcpus + sku.memory_gb

\* price / compute_units (defined when ComputeUnits4 > 0)
PricePerUnit(sku) == Rat(4 * sku.price, ComputeUnits4(sku))

\* float(price) / compute_units raises ZeroDivisionError when the units are 0
PerformanceRaises(sku, all_skus) ==
    /\ HasComputeData(sku)
    /\ \/ ComputeUnits4(sku) = 0
       \/ \E i \in DOMAIN all_skus :
            HasComputeData(all_skus[i]) /\ ComputeUnits4(all_skus[i]) = 0

_calculate_performance_score(sku, all_skus) ==
    LET ratios == {PricePerUnit(all_skus[i]) :
                     i \in {j \in DOMAIN all_skus : HasComputeData(all_skus[j])}}
    IN  IF ~HasComputeData(sku) THEN <<1, 2>>
        ELSE IF ratios = {} THEN <<1, 2>>
        ELSE IF RatMax(ratios) = RatMin(ratios) THEN <<1, 1>>
        ELSE Clamp01(RatDiv(RatSub(RatMax(ratios), PricePerUnit(sku)),
                            RatSub(RatMax(ratios), RatMin(ratios))))

\* variant normalising by the smallest zone count of the pool
_calculate_availability_score_by_min(sku, all_skus) ==
    LET min_zones == SetMin({Cardinality(all_skus[i].zones) : i \in DOMAIN all_skus})
    IN  IF min_zones = 0 THEN <<0, 1>>
        ELSE Rat(Cardinality(sku.zones), min_zones)

_calculate_availability_score(sku, all_skus) ==
    LET max_zones == SetMax({Cardinality(all_skus[i].zones) : i \in DOMAIN all_skus})
    IN  IF max_zones = 0 THEN <<0, 1>>
        ELSE Rat(Cardinality(sku.zones), max_zones)

_calculate_architecture_score(sku, criteria) ==
    IF criteria.architecture_preference = NoneStr
    THEN (IF sku.architecture = "Arm64" THEN Rat(6, 10) ELSE Rat(5, 10))
    ELSE IF sku.architecture = criteria.architecture_preference THEN <<1, 1>>
    ELSE Rat(3, 10)

\* r > n/d
RatGT(r, n, d) == r[1] * d > n * r[2]

WeightedTotal(breakdown, criteria) ==
    RatAdd(RatMul(breakdown.price_score, <<criteria.price_weight, 100>>),
    RatAdd(RatMul(breakdown.eviction_score, <<criteria.eviction_weight, 100>>),
    RatAdd(RatMul(breakdown.performance_score, <<criteria.performance_weight, 100>>),
    RatAdd(RatMul(breakdown.availability_score, <<criteria.availability_weight, 100>>),
           RatMul(breakdown.architecture_score, <<criteria.architecture_weight, 100>>)))))

\* variant that adds the sub-score without scaling the composite down
BlendUnscaled(total, sub) == RatAdd(total, RatMul(sub, <<3, 10>>))

\* total_score * 0.7 + sub_score * 0.3
Blend(total, sub) == RatAdd(RatMul(total, <<7, 10>>), RatMul(sub, <<3, 10>>))

\* reasoning_parts, in the order the code appends them
ReasoningParts(sku, breakdown, criteria) ==
    (IF RatGT(breakdown.price_score, 7, 10) THEN <<"excellent pricing">>
     ELSE IF RatGT(breakdown.price_score, 5, 10) THEN <<"good pricing">>
     ELSE <<>>)
    \o (IF RatGT(breakdown.eviction_score, 8, 10) THEN <<"very low eviction risk">>
        ELSE IF RatGT(breakdown.eviction_score, 6, 10) THEN <<"low eviction risk">>
        ELSE <<>>)
    \o (IF RatGT(breakdown.performance_score, 7, 10) THEN <<"excellent value">>
        ELSE <<>>)
    \o (IF RatGT(breakdown.availability_score, 8, 10) THEN <<"high availability">>
        ELSE <<>>)
    \o (IF RatGT(breakdown.architecture_score, 8, 10) /\ sku.architecture = "Arm64"
        THEN <<"ARM64 efficiency advantage">> ELSE <<>>)
    \o (IF criteria.optimize_for = "cost" THEN <<"cost-optimized">>
        ELSE IF criteria.optimize_for = "reliability" THEN <<"reliability-focused">>
        ELSE IF criteria.optimize_for = "performance" THEN <<"performance-optimized">>
        ELSE <<>>)

\* defined when ~PerformanceRaises(sku, all_skus)
_calculate_sku_score(sku, all_skus, criteria) ==
    LET breakdown ==
            [price_score |-> _calculate_price_score(sku, all_skus),
             eviction_score |-> _calculate_eviction_score(sku),
             performance_score |-> _calculate_performance_score(sku, all_skus),
             availability_score |-> _calculate_availability_score(sku, all_skus),
             architecture_score |-> _calculate_architecture_score(sku, criteria)]
        weighted == WeightedTotal(breakdown, criteria)
        total_score ==
            IF criteria.optimize_for = "cost"
            THEN Blend(weighted, breakdown.price_score)
            ELSE IF criteria.optimize_for = "reliability"
            THEN Blend(weighted, breakdown.eviction_score)
            ELSE IF criteria.optimize_for = "performance"
            THEN Blend(weighted, breakdown.performance_score)
            ELSE weighted
        parts == ReasoningParts(sku, breakdown, criteria)
    IN  [total_score |-> Round3(total_score),
         breakdown |-> breakdown,
         reason |-> SubSeq(parts, 1, Min(3, Len(parts)))]

\* {**sku, "recommendation_score": ..., "score_breakdown": ..., ...}
ScoredSku(sku, all_skus, criteria) ==
    LET score == _calculate_sku_score(sku, all_skus, criteria)
    IN  [recommendation_score |-> score.total_score,
         score_breakdown |-> score.breakdown,
         recommendation_reason |-> score.reason] @@ sku

\* variant of an unstable sort: x goes in front of the elements of equal score
InsertByScoreUnstable(sorted, x) ==
    LET before == {i \in DOMAIN sorted :
                     sorted[i].recommendation_score > x.recommendation_score}
        k == Cardinality(before)
    IN  SubSeq(sorted, 1, k) \o <<x>> \o SubSeq(sorted, k + 1, Len(sorted))

\* list.sort(key=recommendation_score, reverse=True): stable, so records with
\* equal keys keep their order.  x goes behind every element whose score is
\* not lower than its own.
InsertByScore(sorted, x) ==
    LET before == {i \in DOMAIN sorted :
                     sorted[i].recommendation_score >= x.recommendation_score}
        k == Cardinality(before)
    IN  SubSeq(sorted, 1, k) \o <<x>> \o SubSeq(sorted, k + 1, Len(sorted))

RECURSIVE SortByScore(_)
SortByScore(scored) ==
    IF scored = <<>> THEN <<>>
    ELSE InsertByScore(SortByScore(SubSeq(scored, 1, Len(scored) - 1)),
                       scored[Len(scored)])

\* seq[:limit]
Slice(seq, limit) ==
    IF limit >= 0 THEN SubSeq(seq, 1, Min(limit, Len(seq)))
    ELSE SubSeq(seq, 1, Max(Len(seq) + limit, 0))

Ok(items) == [status |-> "ok", items |-> items]
Raised(error) == [status |-> error, items |-> <<>>]
NotRun == [status |-> "none", items |-> <<>>]

recommend_top_skus(skus, criteria, limit) ==
    LET filtered_skus == _apply_constraints(skus, criteria)
    IN  IF skus = <<>> THEN Ok(<<>>)
        ELSE IF filtered_skus = <<>> THEN Ok(<<>>)
        ELSE IF \E i \in DOMAIN filtered_skus :
                   PerformanceRaises(filtered_skus[i], filtered_skus)
        THEN Raised("ZeroDivisionError")
        ELSE Ok(Slice(SortByScore([i \in DOMAIN filtered_skus |->
                        ScoredSku(filtered_skus[i], filtered_skus, criteria)]),
                      limit))

(***************************************************************************)
(* Python strings.  A str is a TLA+ string; the operators below are the    *)
(* str methods the code calls.  Characters are ordered by code point; the  *)
(* alphabet lists, in that order, the characters the model's strings use.  *)
(***************************************************************************)
Alphabet == " +,-.0123456789ABCDEFGHIJKLMNOPQRSTUVWXYZ_abcdefghijklmnopqrstuvwxyz"
UpperCase == "ABCDEFGHIJKLMNOPQRSTUVWXYZ"
LowerCase == "abcdefghijklmnopqrstuvwxyz"
Digits == "0123456789"

CharAt(s, i) == SubSeq(s, i, i)

IndexIn(c, chars) ==
    IF \E i \in 1..Len(chars) : CharAt(chars, i) = c
    THEN CHOOSE i \in 1..Len(chars) : CharAt(chars, i) = c
    ELSE 0

LowerChar(c) ==
    IF IndexIn(c, UpperCase) > 0 THEN CharAt(LowerCase, IndexIn(c, UpperCase))
    ELSE c

\* str.lower()
RECURSIVE lower(_)
lower(s) == IF Len(s) = 0 THEN "" ELSE LowerChar(Head(s)) \o lower(Tail(s))

\* str.strip()
RECURSIVE lstrip(_)
lstrip(s) == IF Len(s) > 0 /\ Head(s) = " " THEN lstrip(Tail(s)) ELSE s

RECURSIVE rstrip(_)
rstrip(s) ==
    IF Len(s) > 0 /\ CharAt(s, Len(s)) = " "
    THEN rstrip(SubSeq(s, 1, Len(s) - 1))
    ELSE s

strip(s) == rstrip(lstrip(s))

\* s.startswith(prefix)
startswith(s, prefix) ==
    Len(s) >= Len(prefix) /\ SubSeq(s, 1, Len(prefix)) = prefix

\* pattern in s
contains(pattern, s) ==
    \E i \in 1..(Len(s) - Len(pattern) + 1) :
        SubSeq(s, i, i + Len(pattern) - 1) = pattern

\* a < b on str: lexicographic by code point
RECURSIVE StrLess(_, _)
StrLess(a, b) ==
    IF Len(b) = 0 THEN FALSE
    ELSE IF Len(a) = 0 THEN TRUE
    ELSE IF Head(a) = Head(b) THEN StrLess(Tail(a), Tail(b))
    ELSE IndexIn(Head(a), Alphabet) < IndexIn(Head(b), Alphabet)

\* bool(x) of an optional str: None and "" are falsy
Truthy(s) == s # NoneStr /\ s # ""

\* x or ""
OrEmpty(s) == IF Truthy(s) THEN s ELSE ""

(***************************************************************************)
(* Capability values.  The provider sends a capability value as a str, a   *)
(* bool or nothing; the model keeps the Python type next to the text that  *)
(* str() gives, so that `is True`, str(), int() and float() tell them      *)
(* apart as Python does.                                                   *)
(***************************************************************************)
PyS(text) == <<"str", text>>
PyTrue == <<"bool", "True">>
PyFalse == <<"bool", "False">>
PyNone == <<"NoneType", "None">>

\* str(value)
PyStr(value) == value[2]

\* the value of a run of decimal digits, None for any other text
RECURSIVE DigitsValue(_, _)
DigitsValue(s, acc) ==
    IF Len(s) = 0 THEN acc
    ELSE IF IndexIn(Head(s), Digits) = 0 THEN None
    ELSE DigitsValue(Tail(s), 10 * acc + IndexIn(Head(s), Digits) - 1)

\* _as_int: int(val), None when int() raises
_as_int(val) ==
    IF val = PyTrue THEN 1
    ELSE IF val = PyFalse THEN 0
    ELSE IF val[1] # "str" \/ Len(val[2]) = 0 THEN None
    ELSE DigitsValue(val[2], 0)

\* the text in front of a "." and the text behind it
IntegerPart(s) ==
    IF contains(".", s)
    THEN SubSeq(s, 1, (CHOOSE i \in 1..Len(s) : CharAt(s, i) = "."
                          /\ \A j \in 1..(i - 1) : CharAt(s, j) # ".") - 1)
    ELSE s

FractionPart(s) ==
    IF contains(".", s)
    THEN SubSeq(s, Len(IntegerPart(s)) + 2, Len(s))
    ELSE ""

\* _as_float: float(val), None when float() raises.  Memory sizes of the
\* model are whole numbers of GB, written "8" or "8.0"; a text with a
\* non-zero fraction is outside the catalogs of the model.
_as_float(val) ==
    IF val = PyTrue THEN 1
    ELSE IF val = PyFalse THEN 0
    ELSE IF val[1] # "str" \/ Len(val[2]) = 0 THEN None
    ELSE IF Len(IntegerPart(val[2])) = 0 THEN None
    ELSE IF DigitsValue(FractionPart(val[2]), 0) # 0 THEN None
    ELSE DigitsValue(IntegerPart(val[2]), 0)

(***************************************************************************)
(* Raw provider records (azure.mgmt.compute ResourceSku) and the SKU       *)
(* normalizer.                                                             *)
(***************************************************************************)
Capability(name, value) == [name |-> name, value |-> value]
Restriction(reason_code, locations) ==
    [reason_code |-> reason_code, locations |-> locations]
LocationInfo(location, zones) == [location |-> location, zones |-> zones]

RawSku(resource_type, name, family, size, capabilities, restrictions, location_info) ==
    [resource_type |-> resource_type, name |-> name, family |-> family,
     size |-> size, capabilities |-> capabilities,
     restrictions |-> restrictions, location_info |-> location_info]

\* the normalizer's "reject" (Python None); a spec always has a name key
NoSpec == [rejected |-> TRUE]

\* caps = {c.name.lower(): c.value for c in capabilities}; caps.get(key)
CapsGet(capabilities, key) ==
    LET hits == {i \in DOMAIN capabilities :
                   lower(OrEmpty(capabilities[i].name)) = key}
    IN  IF hits = {} THEN PyNone ELSE capabilities[SetMax(hits)].value

\* Filter 1: only virtual machine SKUs
IsVirtualMachine(sku) ==
    LET resource_type == lower(OrEmpty(sku.resource_type))
    IN  contains("virtualmachine", resource_type)
        \/ contains("compute", resource_type)

\* Filter 2: only spot-capable SKUs
IsSpotCapable(sku) ==
    LET low_priority == CapsGet(sku.capabilities, "lowprioritycapable")
    IN  low_priority = PyTrue \/ lower(PyStr(low_priority)) \in {"true", "1"}

\* variant that rejects on the reason code alone, whatever the locations
IsRestrictedAnywhere(sku, region) ==
    \E i \in DOMAIN sku.restrictions :
        lower(sku.restrictions[i].reason_code) = "notavailableforsubscription"

\* Filter 3: restricted for the subscription in the region
IsRestricted(sku, region) ==
    \E i \in DOMAIN sku.restrictions :
        LET r == sku.restrictions[i]
        IN  /\ Truthy(r.reason_code)
            /\ lower(r.reason_code) = "notavailableforsubscription"
            /\ \/ r.locations = <<>>
               \/ \E j \in DOMAIN r.locations :
                      lower(r.locations[j]) = lower(region)

\* str(getattr(sku, "name", "")).lower(); str(None) is "None"
NameLower(sku) == lower(sku.name)
FamilyLower(sku) == lower(sku.family)

\* variant of the B-series rule that looks at the name only
IsBSeriesByNameOnly(sku) == startswith(NameLower(sku), "standard_b")

\* Business rule: B-series VMs are excluded
IsBSeries(sku) ==
    LET name_lower == NameLower(sku)
        family_lower == FamilyLower(sku)
    IN  \/ startswith(name_lower, "standard_b")
        \/ startswith(family_lower, "standard_b")
        \/ startswith(family_lower, "standardb")

gpu_patterns ==
    {"_nc", "_nd", "_nv", "_nsv2", "standard_nc", "standard_nd",
     "standard_nv", "standard_nsv2", "microsoft.hpcgpu", "gpu"}

\* the name tokens of backend/app/azure_client.py
gpu_tokens == {"nc", "nd", "nv", "nsv2", "microsoft.hpcgpu", "gpu"}

HasGpuCapability(sku) ==
    \E i \in DOMAIN sku.capabilities :
        LET c_name == lower(OrEmpty(sku.capabilities[i].name))
        IN  contains("gpu", c_name) \/ contains("nvidia", c_name)

HasGpu(sku, patterns) ==
    LET name_lower == NameLower(sku)
        family_lower == FamilyLower(sku)
    IN  \/ \E p \in patterns : contains(p, name_lower)
        \/ \E p \in patterns : contains(p, family_lower)
        \/ HasGpuCapability(sku)

arm64_patterns == {"pls", "pds", "ps_", "pds_", "pls_", "eps", "epds"}

Architecture(sku) ==
    LET name_lower == NameLower(sku)
        family_lower == FamilyLower(sku)
    IN  IF \/ \E p \in arm64_patterns : contains(p, name_lower)
           \/ \E p \in arm64_patterns : contains(p, family_lower)
        THEN "Arm64" ELSE "x64"

\* the zones of the location entries of the region (of every entry when the
\* region is empty); sorted(list(zones_set)) is kept as the set itself
Zones(sku, region) ==
    UNION { {sku.location_info[i].zones[j] :
                j \in DOMAIN sku.location_info[i].zones} :
            i \in {k \in DOMAIN sku.location_info :
                     \/ lower(OrEmpty(sku.location_info[k].location))
                          = lower(region)
                     \/ region = ""} }

\* ComputeClient._extract_sku_specs
_extract_sku_specs(sku, region) ==
    IF ~IsVirtualMachine(sku) THEN NoSpec
    ELSE IF ~IsSpotCapable(sku) THEN NoSpec
    ELSE IF IsRestricted(sku, region) THEN NoSpec
    ELSE IF IsBSeries(sku) THEN NoSpec
    ELSE [name |-> sku.name, size |-> sku.size, family |-> sku.family,
          has_gpu |-> HasGpu(sku, gpu_patterns),
          architecture |-> Architecture(sku),
          vcpus |-> _as_int(CapsGet(sku.capabilities, "vcpus")),
          memory_gb |-> _as_float(CapsGet(sku.capabilities, "memorygb")),
          zones |-> Zones(sku, region)]

\* Client._extract_sku_specs (api/clients/client.py): the same filters; the
\* spec carries supports_spot and no architecture
Client_extract_sku_specs(sku, region) ==
    IF ~IsVirtualMachine(sku) THEN NoSpec
    ELSE IF ~IsSpotCapable(sku) THEN NoSpec
    ELSE IF IsRestricted(sku, region) THEN NoSpec
    ELSE IF IsBSeries(sku) THEN NoSpec
    ELSE [name |-> sku.name, size |-> sku.size, family |-> sku.family,
          has_gpu |-> HasGpu(sku, gpu_patterns),
          vcpus |-> _as_int(CapsGet(sku.capabilities, "vcpus")),
          memory_gb |-> _as_float(CapsGet(sku.capabilities, "memorygb")),
          zones |-> Zones(sku, region),
          supports_spot |-> TRUE]

\* one pass of the loop body of AzureSKUClient.list_spot_skus
\* (backend/app/azure_client.py): `continue` is NoSpec
AzureSKUClient_sku_dict(sku, region) ==
    IF ~IsVirtualMachine(sku) THEN NoSpec
    ELSE IF ~IsSpotCapable(sku) THEN NoSpec
    ELSE IF IsRestricted(sku, region) THEN NoSpec
    ELSE IF IsBSeries(sku) THEN NoSpec
    ELSE [name |-> sku.name, size |-> sku.size, family |-> sku.family,
          has_gpu |-> HasGpu(sku, gpu_tokens),
          vcpus |-> _as_int(CapsGet(sku.capabilities, "vcpus")),
          memory_gb |-> _as_float(CapsGet(sku.capabilities, "memorygb")),
          zones |-> Zones(sku, region)]

(***************************************************************************)
(* The provider catalog of the model.  Each record is a virtual machine    *)
(* SKU located in eastus.                                                  *)
(***************************************************************************)
VmSku(name, family, spot, vcpus, memory, extra, restrictions, zones) ==
    RawSku("virtualMachines", name, family, "size",
           <<Capability("LowPriorityCapable", spot),
             Capability("vCPUs", vcpus),
             Capability("MemoryGB", memory)>> \o extra,
           restrictions, <<LocationInfo("eastus", zones)>>)

RawD2s ==
    VmSku("Standard_D2s_v3", "standardDSv3Family", PyS("True"), PyS("2"),
          PyS("8"), <<>>, <<>>, <<"1", "2", "3">>)
RawD4ps ==
    VmSku("Standard_D4ps_v5", "standardDPSv5Family", PyTrue, PyS("4"),
          PyS("16.0"), <<>>, <<>>, <<"1", "2">>)
RawNC4 ==
    VmSku("Standard_NC4as_T4_v3", "standardNCASv3_T4Family", PyS("1"),
          PyS("4"), PyS("28"), <<Capability("GPUs", PyS("1"))>>, <<>>,
          <<"1">>)
RawB2s ==
    VmSku("Standard_B2s", "standardBSFamily", PyS("True"), PyS("2"),
          PyS("4"), <<>>, <<>>, <<"1", "2", "3">>)
RawUnnamed ==
    VmSku(NoneStr, "standardDSv3Family", PyS("true"), PyS("many"),
          PyNone, <<>>, <<>>, <<>>)

RawUniverse == {RawD2s, RawD4ps, RawNC4, RawB2s, RawUnnamed}

\* the region the catalog of the model is queried for
Eastus == "eastus"

\* _extract_sku_specs over the catalog records, evaluated once
ExtractedSpecs == [sku \in RawUniverse |-> _extract_sku_specs(sku, Eastus)]

ExtractSpec(sku, region) ==
    IF region = Eastus /\ sku \in RawUniverse THEN ExtractedSpecs[sku]
    ELSE _extract_sku_specs(sku, region)

\* region.strip().lower() over the region strings of the calls, evaluated
\* once
CallRegions == {Eastus, "EastUS", " EastUS "}
NormalizedRegions == [region \in CallRegions |-> lower(strip(region))]

NormalizeRegion(region) ==
    IF region \in CallRegions THEN NormalizedRegions[region]
    ELSE lower(strip(region))

\* the order of the family and name strings of the catalog, evaluated once
CatalogStrings ==
    {sku.name : sku \in RawUniverse} \cup {sku.family : sku \in RawUniverse}
StrLessTable ==
    [pair \in CatalogStrings \X CatalogStrings |->
       StrLess(pair[1], pair[2])]

StrBefore(a, b) ==
    IF a \in CatalogStrings /\ b \in CatalogStrings
    THEN StrLessTable[<<a, b>>]
    ELSE StrLess(a, b)

(***************************************************************************)
(* Pricing source (Azure Retail Prices API) and PricingClient.             *)
(***************************************************************************)
PricingRow(armSkuName, meterName, productName, retailPrice, effectiveEndDate) ==
    [armSkuName |-> armSkuName, meterName |-> meterName,
     productName |-> productName, retailPrice |-> retailPrice,
     currencyCode |-> "USD", location |-> "US East",
     armRegionName |-> Eastus, effectiveStartDate |-> "2024-01-01",
     effectiveEndDate |-> effectiveEndDate]

\* the rows of the provider, in the order it sends them
PricingRows ==
    << PricingRow("Standard_D2s_v3", "D2s v3 Spot",
                  "Virtual Machines DSv3 Series Windows", 9, NoneStr),
       PricingRow("Standard_D2s_v3", "D2s v3 Spot",
                  "Virtual Machines DSv3 Series", 2, NoneStr),
       PricingRow("Standard_D2s_v3", "D2s v3 Spot",
                  "Virtual Machines DSv3 Series", 5, "2030-01-01"),
       PricingRow("Standard_NC4as_T4_v3", "NC4as T4 v3 Low Priority",
                  "Virtual Machines NCasT4 v3 Series", 7, NoneStr),
       PricingRow("Standard_D4ps_v5", "D4ps v5 Spot",
                  "Virtual Machines Dpsv5 Series", 1, "2030-01-01"),
       PricingRow("Standard_D2s_v3", "D2s v3 Spot",
                  "Virtual Machines DSv3 Series", 1, NoneStr) >>

RECURSIVE Select(_, _)
Select(seq, keep) ==
    IF seq = <<>> THEN <<>>
    ELSE IF Head(seq) \in keep THEN <<Head(seq)>> \o Select(Tail(seq), keep)
    ELSE Select(Tail(seq), keep)

Range(seq) == {seq[i] : i \in DOMAIN seq}

\* the rows with a Spot or Low Priority meter, which is what the filter of
\* _get_pricing_batch asks the API for
SpotOrLowPriorityRows ==
    {row \in Range(PricingRows) :
       \/ contains("Spot", row.meterName)
       \/ contains("Low Priority", row.meterName)}

\* what the pricing API answers to the filter that _get_pricing_batch builds
_get_pricing_batch(sku_names, region) ==
    Select(PricingRows,
           {row \in SpotOrLowPriorityRows :
              /\ row.armRegionName = region
              /\ row.armSkuName \in Range(sku_names)})

\* the rows that get_pricing_for_skus keeps: Linux + Spot pricing only
LinuxSpotRows ==
    {row \in Range(PricingRows) :
       /\ Truthy(row.armSkuName)
       /\ contains("Spot", row.meterName)
       /\ ~contains("Windows", row.productName)}

\* the record that get_pricing_for_skus keeps of a row
filtered_record(row) ==
    LET essential ==
          [price |-> row.retailPrice, currency |-> row.currencyCode,
           location |-> row.location,
           effective_start |-> row.effectiveStartDate,
           meter_name |-> row.meterName, product_name |-> row.productName]
    IN  IF Truthy(row.effectiveEndDate)
        THEN [effective_end |-> row.effectiveEndDate] @@ essential
        ELSE essential

\* sku_names of get_pricing_for_skus
PricedNames(sku_specs) ==
    LET named == Select(sku_specs,
                        {s \in Range(sku_specs) : s.name # NoneStr})
    IN  [i \in DOMAIN named |-> named[i].name]

\* PricingClient.get_pricing_for_skus once the rows are there: the Linux
\* Spot records by SKU name, in the order of the rows
get_pricing_for_skus(sku_specs, region) ==
    LET rows == _get_pricing_batch(PricedNames(sku_specs), region)
        kept == Select(rows, LinuxSpotRows)
    IN  [name \in {kept[i].armSkuName : i \in DOMAIN kept} |->
           LET mine == Select(kept, {row \in Range(kept) :
                                       row.armSkuName = name})
           IN  [i \in DOMAIN mine |-> filtered_record(mine[i])]]

(***************************************************************************)
(* SkuService.list_spot_skus                                               *)
(***************************************************************************)
\* the sku cache: a function from the keys it holds to the cached lists
EmptyCache == [key \in {} |-> <<>>]

\* the cache key.  The f-string separates the normalized parameters by
\* fixed labels and the lower-cased region cannot hold "True" or "False",
\* so two calls have the same key exactly when these tuples are equal.
CacheKey(region, include_gpu, max_vcpus, max_memory_gb, include_pricing, currency_code) ==
    <<region, include_gpu, max_vcpus, max_memory_gb, include_pricing,
      currency_code>>

\* variant that keeps the entry a key has
set_cached_if_absent(cache, key, value) ==
    IF key \in DOMAIN cache THEN cache
    ELSE [k \in DOMAIN cache \cup {key} |-> IF k = key THEN value ELSE cache[k]]

set_cached(cache, key, value) ==
    [k \in DOMAIN cache \cup {key} |-> IF k = key THEN value ELSE cache[k]]

\* variant of the GPU filter in which include_gpu adds the GPU SKUs
PassesGpuAdditive(sku_specs, include_gpu) ==
    include_gpu \/ ~sku_specs.has_gpu

\* the GPU filter: neither of the two `continue` branches is taken
PassesGpu(sku_specs, include_gpu) ==
    /\ ~(include_gpu /\ ~sku_specs.has_gpu)
    /\ ~(~include_gpu /\ sku_specs.has_gpu)

PassesCeilings(sku_specs, max_vcpus, max_memory_gb) ==
    /\ ~(max_vcpus # None /\ sku_specs.vcpus # None
           /\ sku_specs.vcpus > max_vcpus)
    /\ ~(max_memory_gb # None /\ sku_specs.memory_gb # None
           /\ sku_specs.memory_gb > max_memory_gb)

\* the loop over raw_skus: the specs that are appended to processed_skus
RECURSIVE ProcessSkus(_, _, _, _, _)
ProcessSkus(raw_skus, region, include_gpu, max_vcpus, max_memory_gb) ==
    IF raw_skus = <<>> THEN <<>>
    ELSE LET sku_specs == ExtractSpec(Head(raw_skus), region)
             rest == ProcessSkus(Tail(raw_skus), region, include_gpu,
                                 max_vcpus, max_memory_gb)
         IN  IF /\ sku_specs # NoSpec
                /\ PassesGpu(sku_specs, include_gpu)
                /\ PassesCeilings(sku_specs, max_vcpus, max_memory_gb)
             THEN <<sku_specs>> \o rest
             ELSE rest

\* the sort key (family, name) of two specs cannot be compared: at the first
\* component in which they differ one is None and the other a str
KeyRaises(x, y) ==
    IF x.family # y.family
    THEN x.family = NoneStr \/ y.family = NoneStr
    ELSE x.name # y.name /\ (x.name = NoneStr \/ y.name = NoneStr)

\* sorted() raises TypeError exactly when two keys cannot be compared
SortRaises(skus) ==
    \E i, j \in DOMAIN skus : KeyRaises(skus[i], skus[j])

KeyLess(x, y) ==
    IF x.family # y.family THEN StrBefore(x.family, y.family)
    ELSE IF x.name # y.name THEN StrBefore(x.name, y.name)
    ELSE FALSE

\* sorted(processed_skus, key=(family, name)): stable, ascending
InsertByKey(sorted, x) ==
    LET before == {i \in DOMAIN sorted : ~KeyLess(x, sorted[i])}
        k == Cardinality(before)
    IN  SubSeq(sorted, 1, k) \o <<x>> \o SubSeq(sorted, k + 1, Len(sorted))

RECURSIVE SortByKey(_)
SortByKey(skus) ==
    IF skus = <<>> THEN <<>>
    ELSE InsertByKey(SortByKey(SubSeq(skus, 1, Len(skus) - 1)),
                     skus[Len(skus)])

\* sku.update({...}) with the first pricing record of the SKU
price_fields(pricing_record) ==
    LET fields == [price |-> pricing_record.price,
                   currency |-> pricing_record.currency,
                   location |-> pricing_record.location,
                   effective_start |-> pricing_record.effective_start,
                   meter_name |-> pricing_record.meter_name,
                   product_name |-> pricing_record.product_name]
    IN  IF "effective_end" \in DOMAIN pricing_record
        THEN [effective_end |-> pricing_record.effective_end] @@ fields
        ELSE fields

\* variant that attaches the cheapest record of the SKU
AddPricingCheapest(processed_skus, pricing_data) ==
    [i \in DOMAIN processed_skus |->
       LET sku == processed_skus[i]
       IN  IF /\ Truthy(sku.name)
              /\ sku.name \in DOMAIN pricing_data
              /\ pricing_data[sku.name] # <<>>
           THEN price_fields(
                  pricing_data[sku.name][
                    CHOOSE k \in DOMAIN pricing_data[sku.name] :
                       \A j \in DOMAIN pricing_data[sku.name] :
                          pricing_data[sku.name][k].price
                            <= pricing_data[sku.name][j].price]) @@ sku
           ELSE sku]

AddPricing(processed_skus, pricing_data) ==
    [i \in DOMAIN processed_skus |->
       LET sku == processed_skus[i]
       IN  IF /\ Truthy(sku.name)
              /\ sku.name \in DOMAIN pricing_data
              /\ pricing_data[sku.name] # <<>>
           THEN price_fields(pricing_data[sku.name][1]) @@ sku
           ELSE sku]

\* variant in which a failed pricing fetch leaves price = None on each SKU
WithoutPricingAsNull(processed_skus) ==
    [i \in DOMAIN processed_skus |->
       [price |-> None] @@ processed_skus[i]]

\* the except branch of the pricing step: the list stays as it is
WithoutPricing(processed_skus) == processed_skus

\* what a call returns or raises, the collaborator calls it made in order,
\* and the cache it leaves
Outcome(status, items, io, cache) ==
    [status |-> status, items |-> items, io |-> io, cache |-> cache]

\* the pricing fetch is made: pricing is requested and some listed SKU has
\* a name to ask for
FetchesPrices(processed_skus, include_pricing) ==
    /\ include_pricing
    /\ processed_skus # <<>>
    /\ PricedNames(processed_skus) # <<>>

\* the pricing step: the try block adds the price fields, the except
\* branch leaves the list as it is
PricingStep(processed_skus, region, include_pricing, pricing_up) ==
    IF include_pricing /\ processed_skus # <<>>
    THEN IF FetchesPrices(processed_skus, include_pricing) /\ ~pricing_up
         THEN WithoutPricing(processed_skus)
         ELSE AddPricing(processed_skus,
                         get_pricing_for_skus(processed_skus, region))
    ELSE processed_skus

\* the collaborator calls of a call that builds its list
BuildIo(fetches_prices) ==
    <<"get_cached", "list_raw_skus">>
      \o (IF fetches_prices THEN <<"get_pricing">> ELSE <<>>)
      \o <<"set_cached">>

\* set_cached(cache_key, processed_skus); return processed_skus
CacheAndReturn(cache, cache_key, result, io) ==
    Outcome("ok", result, io, set_cached(cache, cache_key, result))

\* variant that stores the list only when the pricing step did not fail
PriceAndCacheOnSuccess(cache, cache_key, processed_skus, region, include_pricing, pricing_up) ==
    IF FetchesPrices(processed_skus, include_pricing) /\ ~pricing_up
    THEN Outcome("ok", WithoutPricing(processed_skus),
                 BuildIo(TRUE), cache)
    ELSE CacheAndReturn(cache, cache_key,
                        PricingStep(processed_skus, region, include_pricing,
                                    pricing_up),
                        BuildIo(FetchesPrices(processed_skus, include_pricing)))

\* the sorted list goes through the pricing step and into the cache
PriceAndCache(cache, cache_key, processed_skus, region, include_pricing, pricing_up) ==
    CacheAndReturn(cache, cache_key,
                   PricingStep(processed_skus, region, include_pricing,
                               pricing_up),
                   BuildIo(FetchesPrices(processed_skus, include_pricing)))

\* after the cache lookup: a hit returns the cached list; otherwise the
\* catalog fetch, whose failure raises RuntimeError, the filter loop (kept
\* is what it appended), the sort, the pricing step and the cache write
LookupOrBuild(cache, cache_key, kept, catalog_up, pricing_up, region, include_pricing) ==
    IF cache_key \in DOMAIN cache
    THEN Outcome("ok", cache[cache_key], <<"get_cached">>, cache)
    ELSE IF ~catalog_up
    THEN Outcome("RuntimeError", <<>>, <<"get_cached", "list_raw_skus">>,
                 cache)
    ELSE IF SortRaises(kept)
    THEN Outcome("TypeError", <<>>, <<"get_cached", "list_raw_skus">>,
                 cache)
    ELSE PriceAndCache(cache, cache_key, SortByKey(kept), region,
                       include_pricing, pricing_up)

\* the call once the region is normalized
ListNormalized(cache, raw_skus, catalog_up, pricing_up, region, include_gpu, max_vcpus, max_memory_gb, include_pricing, currency_code) ==
    LookupOrBuild(cache,
                  CacheKey(region, include_gpu, max_vcpus, max_memory_gb,
                           include_pricing, currency_code),
                  ProcessSkus(raw_skus, region, include_gpu, max_vcpus,
                              max_memory_gb),
                  catalog_up, pricing_up, region, include_pricing)

\* The collaborators of one call: raw_skus is what list_raw_skus returns,
\* catalog_up and pricing_up tell whether the two fetches succeed.
list_spot_skus(cache, raw_skus, catalog_up, pricing_up, region, include_gpu, max_vcpus, max_memory_gb, include_pricing, currency_code) ==
    IF ~Truthy(region) \/ strip(region) = ""
    THEN Outcome("ValueError", <<>>, <<>>, cache)
    ELSE ListNormalized(cache, raw_skus, catalog_up, pricing_up,
                        NormalizeRegion(region), include_gpu, max_vcpus,
                        max_memory_gb, include_pricing, currency_code)
(***************************************************************************)
(* The recommendations endpoint, get_spot_recommendations.                 *)
(***************************************************************************)
\* the parameters that SkuService.list_spot_skus declares
ListSpotSkusParams ==
    {"region", "include_gpu", "max_vcpus", "max_memory_gb",
     "include_pricing", "currency_code"}

\* the parameters of the service whose signature the endpoint is written
\* for: it also takes the eviction-rate switch and the architecture filter
ListSpotSkusParamsWithEviction ==
    ListSpotSkusParams \cup {"include_eviction_rates", "architecture"}

\* the keywords of the call in get_spot_recommendations (region is
\* positional)
RecommendationsCallKeywords ==
    {"include_gpu", "max_vcpus", "max_memory_gb", "include_pricing",
     "include_eviction_rates", "currency_code"}

\* Python binds a call only if every keyword is a declared parameter;
\* otherwise the call raises TypeError before the body runs
CallBinds(keywords, params) == keywords \subseteq params

\* the eviction source: the bucket of a SKU in the region, where it has one
EvictionRates ==
    [name \in {"Standard_D2s_v3", "Standard_D4ps_v5"} |->
       IF name = "Standard_D2s_v3" THEN "5-10" ELSE "20+"]

\* the eviction-rate enrichment: the bucket goes into eviction_rate; a
\* failed lookup and a SKU without a bucket leave the SKU as it is
AddEvictionRates(skus, eviction_up) ==
    [i \in DOMAIN skus |->
       IF eviction_up /\ skus[i].name \in DOMAIN EvictionRates
       THEN [eviction_rate |-> EvictionRates[skus[i].name]] @@ skus[i]
       ELSE skus[i]]

\* the eviction-rate step on what list_spot_skus did: a freshly built,
\* non-empty list is enriched before the cache write
EvictionStep(cache, cache_key, out, eviction_up) ==
    IF out.status = "ok" /\ out.io # <<"get_cached">> /\ out.items # <<>>
    THEN CacheAndReturn(cache, cache_key,
                        AddEvictionRates(out.items, eviction_up),
                        SubSeq(out.io, 1, Len(out.io) - 1)
                          \o <<"get_eviction_rates", "set_cached">>)
    ELSE out

\* list_spot_skus of the service that takes include_eviction_rates: the
\* body of SkuService.list_spot_skus, then the eviction-rate enrichment of
\* a freshly built list, which is what the cache then holds
list_spot_skus_with_eviction(cache, raw_skus, catalog_up, pricing_up, eviction_up, region, include_gpu, max_vcpus, max_memory_gb, include_pricing, currency_code) ==
    EvictionStep(cache,
                 CacheKey(NormalizeRegion(region), include_gpu, max_vcpus,
                          max_memory_gb, include_pricing, currency_code),
                 list_spot_skus(cache, raw_skus, catalog_up, pricing_up,
                                region, include_gpu, max_vcpus,
                                max_memory_gb, include_pricing,
                                currency_code),
                 eviction_up)

\* sku.get(field) of the scorer: None when the dict lacks the field
GetNumber(sku, field) == IF field \in DOMAIN sku THEN sku[field] ELSE None
GetString(sku, field) == IF field \in DOMAIN sku THEN sku[field] ELSE NoneStr

\* the fields of a listed SKU that the recommendation engine reads
Candidate(sku) ==
    Sku(sku.name, GetNumber(sku, "price"), GetString(sku, "eviction_rate"),
        GetNumber(sku, "vcpus"), GetNumber(sku, "memory_gb"),
        IF "zones" \in DOMAIN sku THEN sku.zones ELSE {},
        GetString(sku, "architecture"))

Candidates(skus) == [i \in DOMAIN skus |-> Candidate(skus[i])]

Request(region, limit, optimize_for, max_hourly_cost, max_eviction_rate, architecture_preference, gpu) ==
    [region |-> region, limit |-> limit, optimize_for |-> optimize_for,
     max_hourly_cost |-> max_hourly_cost,
     max_eviction_rate |-> max_eviction_rate,
     architecture_preference |-> architecture_preference, gpu |-> gpu,
     max_vcpus |-> 8, max_memory_gb |-> 32, currency_code |-> "USD"]

NoMetadata == [field \in {} |-> ""]

\* an answer of the endpoint: the HTTP status, the detail of an
\* HTTPException, the body of a success, the collaborator calls made for
\* the request and the cache it leaves
Response(status_code, detail, recommendations, metadata, io, cache) ==
    [status_code |-> status_code, detail |-> detail,
     recommendations |-> recommendations, metadata |-> metadata,
     io |-> io, cache |-> cache]

HTTPException(status_code, detail, io, cache) ==
    Response(status_code, detail, <<>>, NoMetadata, io, cache)

\* RecommendationCriteria(max_hourly_cost=..., max_eviction_rate=...,
\* optimize_for=..., architecture_preference=...)
RequestCriteria(req) ==
    Criteria(req.optimize_for, req.architecture_preference, DefaultWeights,
             req.max_hourly_cost, req.max_eviction_rate, 1)

\* the answer built from the recommendations
RecommendationsBody(req, skus, recommendations, io, cache) ==
    Response(200, "", recommendations,
             [total_skus_analyzed |-> Len(skus),
              recommendations_returned |-> Len(recommendations)],
             io, cache)

\* the answer for the scored list, or the 500 for an error of the scorer
AnswerRecommended(req, out, recommended) ==
    IF recommended.status # "ok"
    THEN HTTPException(500, "Failed to generate recommendations: "
                              \o recommended.status, out.io, out.cache)
    ELSE RecommendationsBody(req, out.items, recommended.items, out.io,
                             out.cache)

\* the answer for what the service call returned or raised
AnswerFor(req, out) ==
    IF out.status = "ValueError"
    THEN HTTPException(400, "Region parameter is required and cannot be empty",
                       out.io, out.cache)
    ELSE IF out.status # "ok"
    THEN HTTPException(500, "Failed to generate recommendations: "
                              \o out.status, out.io, out.cache)
    ELSE IF out.items = <<>>
    THEN Response(200, "", <<>>,
                  [count |-> 0,
                   message |-> "No spot SKUs found matching criteria"],
                  out.io, out.cache)
    ELSE AnswerRecommended(req, out,
                           recommend_top_skus(Candidates(out.items),
                                              RequestCriteria(req),
                                              req.limit))

\* the try block: the service call, the empty-list answer, the scoring
RecommendationsTry(params, cache, raw_skus, up, req) ==
    IF ~CallBinds(RecommendationsCallKeywords, params)
    THEN HTTPException(500, "Failed to generate recommendations: TypeError",
                       <<>>, cache)
    ELSE AnswerFor(req,
                   list_spot_skus_with_eviction(cache, raw_skus,
                       up.catalog_up, up.pricing_up, up.eviction_up,
                       req.region, req.gpu, req.max_vcpus, req.max_memory_gb,
                       TRUE, req.currency_code))

\* `if architecture_preference and ...`: None and "" skip the check
IsChecked(value) == Truthy(value)

get_spot_recommendations(params, cache, raw_skus, up, req) ==
    IF ~Truthy(req.region)
    THEN HTTPException(400, "region query parameter is required", <<>>,
                       cache)
    ELSE IF req.limit < 1 \/ req.limit > 10
    THEN HTTPException(400, "limit must be between 1 and 10", <<>>, cache)
    ELSE IF req.optimize_for \notin Modes
    THEN HTTPException(400, "optimize_for must be one of: cost, reliability, performance, balanced",
                       <<>>, cache)
    ELSE IF /\ IsChecked(req.architecture_preference)
            /\ req.architecture_preference \notin {"x64", "Arm64"}
    THEN HTTPException(400, "architecture_preference must be 'x64' or 'Arm64'",
                       <<>>, cache)
    ELSE IF /\ IsChecked(req.max_eviction_rate)
            /\ req.max_eviction_rate \notin KnownBuckets
    THEN HTTPException(400, "max_eviction_rate must be one of: 0-5, 5-10, 10-15, 15-20, 20+",
                       <<>>, cache)
    ELSE RecommendationsTry(params, cache, raw_skus, up, req)


(***************************************************************************)
(* backend/app/filters.py.  An item is a dict; the model keeps it as a     *)
(* record over the keys the dict has.  vCPUs and memoryGB are numbers or   *)
(* None, vmSku and vmSeries are strs or None, gpu and supportsSpot are     *)
(* bools, zones is a list of strs.                                         *)
(***************************************************************************)
\* it.get(key): None of the key's type when the key is absent
ItemGet(it, key, none) == IF key \in DOMAIN it THEN it[key] ELSE none

\* it[key] = value
ItemSet(it, key, value) ==
    [k \in DOMAIN it \cup {key} |-> IF k = key THEN value ELSE it[k]]

\* it.get("zones") or []
ItemZones(it) == ItemGet(it, "zones", <<>>)

\* bool(x) of an optional number: None and 0 are falsy
TruthyNumber(x) == x # None /\ x # 0

\* s.split(",")
RECURSIVE split(_)
split(s) ==
    IF \E i \in 1..Len(s) : CharAt(s, i) = ","
    THEN LET i == CHOOSE i \in 1..Len(s) :
                     /\ CharAt(s, i) = ","
                     /\ \A j \in 1..(i - 1) : CharAt(s, j) # ","
         IN  <<SubSeq(s, 1, i - 1)>> \o split(SubSeq(s, i + 1, Len(s)))
    ELSE <<s>>

\* [z.strip() for z in zones.split(",")] if zones else None; None is <<>>,
\* which `not wanted` treats as it treats None
WantedZones(zones) ==
    IF Truthy(zones)
    THEN [i \in DOMAIN split(zones) |-> strip(split(zones)[i])]
    ELSE <<>>

ElementsOf(seq) == {seq[i] : i \in DOMAIN seq}

\* variant that matches any requested zone in both modes
_matches_zones_any(item_zones, wanted, match_mode) ==
    wanted = <<>> \/ ElementsOf(item_zones) \cap ElementsOf(wanted) # {}

_matches_zones(item_zones, wanted, match_mode) ==
    IF wanted = <<>> THEN TRUE
    ELSE IF match_mode = "all"
         THEN ElementsOf(wanted) \subseteq ElementsOf(item_zones)
         ELSE ElementsOf(item_zones) \cap ElementsOf(wanted) # {}

\* sorted(S) of a set of strs
RECURSIVE SortedStrings(_)
SortedStrings(S) ==
    IF S = {} THEN <<>>
    ELSE LET least == CHOOSE x \in S : \A y \in S \ {x} : StrLess(x, y)
         IN  <<least>> \o SortedStrings(S \ {least})

\* the first loop: items that are empty or have no vmSku are dropped
Clean(items) ==
    SelectSeq(items, LAMBDA it : DOMAIN it # {}
                                 /\ Truthy(ItemGet(it, "vmSku", NoneStr)))

\* the first-seen record of a name: a copy with zones as a list of strs
FirstSeen(it) == ItemSet(it, "zones", ItemZones(it))

\* a later record of a name: zones are united and sorted, vCPUs and memoryGB
\* are taken over when the kept value is falsy and the later one is not
MergeNumberFirstWins(existing, it, key) == existing
MergeNumber(existing, it, key) ==
    IF ~TruthyNumber(ItemGet(existing, key, None))
         /\ TruthyNumber(ItemGet(it, key, None))
    THEN ItemSet(existing, key, it[key])
    ELSE existing

MergeDuplicate(existing, it) ==
    MergeNumber(MergeNumber(ItemSet(existing, "zones",
                    SortedStrings(ElementsOf(ItemZones(existing))
                                    \cup ElementsOf(ItemZones(it)))),
                            it, "vCPUs"),
                it, "memoryGB")

\* dedup after one more record; a dict keeps its keys in insertion order
DedupInsert(dedup, it) ==
    IF \E i \in DOMAIN dedup : dedup[i].vmSku = it.vmSku
    THEN [i \in DOMAIN dedup |->
            IF dedup[i].vmSku = it.vmSku THEN MergeDuplicate(dedup[i], it)
            ELSE dedup[i]]
    ELSE Append(dedup, FirstSeen(it))

\* the second loop: list(dedup.values())
RECURSIVE Dedupe(_)
Dedupe(clean) ==
    IF clean = <<>> THEN <<>>
    ELSE DedupInsert(Dedupe(SubSeq(clean, 1, Len(clean) - 1)),
                     clean[Len(clean)])

\* the parameters of filter_and_shape_items
FilterParams(min_vcpus, max_vcpus, min_memory_gb, max_memory_gb, gpu, supports_spot, sku_like, series, zones, zones_match, sort_by, sort_order, offset, limit, fields) ==
    [min_vcpus |-> min_vcpus, max_vcpus |-> max_vcpus,
     min_memory_gb |-> min_memory_gb, max_memory_gb |-> max_memory_gb,
     gpu |-> gpu, supports_spot |-> supports_spot, sku_like |-> sku_like,
     series |-> series, zones |-> zones, zones_match |-> zones_match,
     sort_by |-> sort_by, sort_order |-> sort_order, offset |-> offset,
     limit |-> limit, fields |-> fields]

\* x or 0
OrZero(x) == IF TruthyNumber(x) THEN x ELSE 0

\* set(s.strip().lower() for s in series.split(","))
SeriesSet(series) == {lower(strip(split(series)[i])) : i \in DOMAIN split(series)}

\* `if not gpu and it.get("gpu", False): continue`
PassesGpuFilter(it, p) == ~(~p.gpu /\ ItemGet(it, "gpu", FALSE))

\* variant that reads a missing number as one above every ceiling
PassesMaxNullAsLarge(value, ceiling) == ~(ceiling # None /\ (value = None \/ value > ceiling))

\* `v = it.get(key) or 0`, `if max is not None and v > max: continue`
PassesMax(value, ceiling) == ~(ceiling # None /\ OrZero(value) > ceiling)

\* `if min is not None and v < min: continue`
PassesMin(value, floor) == ~(floor # None /\ OrZero(value) < floor)

\* the filtering loop keeps it
PassesFilters(it, p) ==
    /\ ~(p.supports_spot /\ ~ItemGet(it, "supportsSpot", FALSE))
    /\ PassesGpuFilter(it, p)
    /\ PassesMin(ItemGet(it, "vCPUs", None), p.min_vcpus)
    /\ PassesMax(ItemGet(it, "vCPUs", None), p.max_vcpus)
    /\ PassesMin(ItemGet(it, "memoryGB", None), p.min_memory_gb)
    /\ PassesMax(ItemGet(it, "memoryGB", None), p.max_memory_gb)
    /\ ~(Truthy(p.sku_like)
           /\ ~contains(lower(p.sku_like), lower(it.vmSku)))
    /\ ~(Truthy(p.series)
           /\ lower(OrEmpty(ItemGet(it, "vmSeries", NoneStr)))
                \notin SeriesSet(p.series))
    /\ _matches_zones(ItemZones(it), WantedZones(p.zones), p.zones_match)

\* the sort key (x.get(sort_by) is None, x.get(sort_by)) of an item, for the
\* fields vmSku (a str) and vCPUs, memoryGB (numbers)
SortKey(it, sort_by) ==
    IF sort_by = "vmSku"
    THEN <<ItemGet(it, sort_by, NoneStr) = NoneStr, ItemGet(it, sort_by, NoneStr)>>
    ELSE <<ItemGet(it, sort_by, None) = None, ItemGet(it, sort_by, None)>>

\* a < b on two sort keys of the field sort_by: False sorts before True, two
\* None values are equal
SortKeyLess(a, b, sort_by) ==
    IF a[1] # b[1] THEN b[1]
    ELSE IF a[1] THEN FALSE
    ELSE IF sort_by = "vmSku" THEN StrLess(a[2], b[2])
    ELSE a[2] < b[2]

\* list.sort(key=..., reverse=reverse) is stable in both directions: x goes
\* behind every element that does not have to come after it
SortInsert(sorted, x, sort_by, reverse) ==
    LET before == {i \in DOMAIN sorted :
                     IF reverse
                     THEN ~SortKeyLess(SortKey(sorted[i], sort_by),
                                       SortKey(x, sort_by), sort_by)
                     ELSE ~SortKeyLess(SortKey(x, sort_by),
                                       SortKey(sorted[i], sort_by), sort_by)}
        k == Cardinality(before)
    IN  SubSeq(sorted, 1, k) \o <<x>> \o SubSeq(sorted, k + 1, Len(sorted))

\* filtered.sort(...); the keys of one field have one type, so the sort does
\* not raise and the fallback of the except branch is not taken
RECURSIVE SortItems(_, _, _)
SortItems(filtered, sort_by, reverse) ==
    IF filtered = <<>> THEN <<>>
    ELSE SortInsert(SortItems(SubSeq(filtered, 1, Len(filtered) - 1),
                              sort_by, reverse),
                    filtered[Len(filtered)], sort_by, reverse)

DEFAULT_MIN_LIMIT == 1

\* filtered[offset : offset + limit] after the clamping of offset and limit
Page(filtered, offset, limit) ==
    SubSeq(filtered, Max(0, OrZero(offset)) + 1,
           Min(Len(filtered),
               Max(0, OrZero(offset))
                 + Max(DEFAULT_MIN_LIMIT,
                       Min(1000, IF TruthyNumber(limit) THEN limit ELSE 200))))

DefaultFields == {"vmSku", "vCPUs", "memoryGB", "gpu", "supportsSpot", "zones"}

\* {f.strip() for f in fields.split(",")}
FieldsList(fields) == {strip(split(fields)[i]) : i \in DOMAIN split(fields)}

\* {k: item.get(k) for k in include if k in item}
_as_minimal(item, fields) ==
    [k \in DOMAIN item \cap (IF Truthy(fields) THEN FieldsList(fields)
                             ELSE DefaultFields) |-> item[k]]

\* the shaped page and the number of matching items
ShapeFiltered(filtered, p) ==
    [items |-> [i \in DOMAIN Page(filtered, p.offset, p.limit) |->
                  _as_minimal(Page(filtered, p.offset, p.limit)[i], p.fields)],
     total |-> Len(filtered)]

SortAndShape(filtered, p) ==
    ShapeFiltered(SortItems(filtered, p.sort_by, p.sort_order = "desc"), p)

FilterPool(pool_items, p) ==
    SortAndShape(SelectSeq(pool_items, LAMBDA it : PassesFilters(it, p)), p)

filter_and_shape_items(items, p) == FilterPool(Dedupe(Clean(items)), p)
(***************************************************************************)
(* State.                                                                  *)
(*   pool, criteria, limit, result: the candidate pool handed to           *)
(*     recommend_top_skus, the criteria and limit of the call, and what    *)
(*     the call returned;                                                  *)
(*   raw_sku, target_region, normalized, listed: a raw provider record,    *)
(*     the region it is normalized for, what the three normalizers made    *)
(*     of it and what list_spot_skus lists of a catalog that holds it;     *)
(*   catalog, sku_cache, call: the provider catalog, the SKU cache         *)
(*     (utils/cache.py) and the last list_spot_skus call with its outcome; *)
(*   service_params, upstream, request, response: the parameters of the    *)
(*     injected service, the condition of the collaborators during the     *)
(*     last request, the request and its answer;                           *)
(*   scoring_runs: the recommend_top_skus calls made so far on one pool,   *)
(*     each with its criteria, limit and result;                           *)
(*   item_list, filter_call: the items handed to filter_and_shape_items    *)
(*     and the call with what it returned;                                 *)
(*   shared_params, calls, lists: the parameters that fix the cache key    *)
(*     of the concurrent list_spot_skus calls, the calls with their        *)
(*     position in the coroutine, and the list object that each call       *)
(*     builds; in this part sku_cache holds the number of the call whose   *)
(*     list object the entry refers to, and cache_history the numbers of   *)
(*     the calls that wrote the entry, in order, with 0 for an expiry;     *)
(*   attempts, waits, request_state: the outcomes of the HTTP attempts of  *)
(*     one PricingClient._make_request call, the seconds it slept after    *)
(*     each failed attempt, and where the call stands (its retry_count     *)
(*     included);                                                          *)
(*   clock, _token_cache, _token_expires_at, issued, token_call: the time  *)
(*     in seconds, the two token fields of AzureClient, the number of      *)
(*     tokens the credential has issued and the last                       *)
(*     get_management_token call;                                          *)
(*   _azure_client, _compute_client, _pricing_client, _sku_service,        *)
(*     constructed, container_log: the four references of                  *)
(*     DependencyContainer (0 for None, else the number of the instance),  *)
(*     the number of instances constructed of each kind and the calls made *)
(*     on the container with what they returned.                           *)
(***************************************************************************)
VARIABLES pool, criteria, limit, result,
          raw_sku, target_region, normalized, listed,
          catalog, sku_cache, call,
          service_params, upstream, request, response,
          scoring_runs,
          item_list, filter_call,
          shared_params, calls, lists, cache_history,
          attempts, waits, request_state,
          clock, _token_cache, _token_expires_at, issued, token_call,
          _azure_client, _compute_client, _pricing_client, _sku_service,
          constructed, container_log

recVars == <<pool, criteria, limit, result>>
normVars == <<raw_sku, target_region, normalized, listed>>
skuVars == <<catalog, sku_cache, call>>
routeVars == <<service_params, upstream, request, response>>
rerunVars == <<scoring_runs>>
filterVars == <<item_list, filter_call>>
concVars == <<shared_params, calls, lists, cache_history>>
retryVars == <<attempts, waits, request_state>>
tokenVars == <<clock, _token_cache, _token_expires_at, issued, token_call>>
containerVars == <<_azure_client, _compute_client, _pricing_client, _sku_service, constructed, container_log>>
moreVars == <<retryVars, tokenVars, containerVars>>
laterVars == <<rerunVars, filterVars, concVars, moreVars>>
vars == <<recVars, normVars, skuVars, routeVars, laterVars>>

WeightConfigs == {DefaultWeights, <<20, 20, 20, 20, 20>>, <<0, 0, 0, 50, 50>>}
Preferences == {NoneStr, "x64", "Arm64"}

\* the criteria the calls are made with: every mode and preference under the
\* default weights, two other weight configurations, and the hard constraints
CriteriaSet ==
    {Criteria(m, p, DefaultWeights, None, NoneStr, 1) :
        m \in Modes, p \in Preferences}
    \cup
    {Criteria(m, p, w, None, NoneStr, 1) :
        m \in {"balanced", "cost"}, p \in {NoneStr, "Arm64"},
        w \in WeightConfigs}
    \cup
    {Criteria("balanced", NoneStr, DefaultWeights, mc, me, mz) :
        mc \in {None, 2}, me \in {NoneStr, "5-10"}, mz \in {1, 2}}

\* the limits the calls are made with (the endpoint admits 1..10)
Limits == {1, 2, 10}

\* the dataclass defaults and the default limit
DefaultCriteria == Criteria("balanced", NoneStr, DefaultWeights, None, NoneStr, 1)
DefaultLimit == 5

\* ---- values before anything has run ----
NotExtracted == [pending |-> TRUE]
NoCall == [status |-> "none"]
NoUpstream == [catalog_up |-> TRUE, pricing_up |-> TRUE,
               eviction_up |-> TRUE, cache_before |-> EmptyCache]
DefaultRequest == Request(Eastus, DefaultLimit, "balanced", None, NoneStr,
                          NoneStr, FALSE)
NoResponse == Response(0, "", <<>>, NoMetadata, <<>>, EmptyCache)

RecIdle ==
    /\ pool = <<>>
    /\ criteria = DefaultCriteria
    /\ limit = DefaultLimit
    /\ result = NotRun

NormIdle ==
    /\ raw_sku = RawD2s
    /\ target_region = Eastus
    /\ normalized = NotExtracted
    /\ listed = NoCall

SkuIdle ==
    /\ catalog = <<>>
    /\ sku_cache = EmptyCache
    /\ call = NoCall

RouteIdle ==
    /\ service_params = ListSpotSkusParams
    /\ upstream = NoUpstream
    /\ request = DefaultRequest
    /\ response = NoResponse

RerunIdle == scoring_runs = <<>>

FilterIdle == item_list = <<>> /\ filter_call = NoCall

ConcIdle ==
    /\ shared_params = NoCall
    /\ calls = <<>>
    /\ lists = <<>>
    /\ cache_history = <<>>

RetryIdle ==
    /\ attempts = <<>>
    /\ waits = <<>>
    /\ request_state = NoCall

TokenIdle ==
    /\ clock = 0
    /\ _token_cache = 0
    /\ _token_expires_at = 0
    /\ issued = 0
    /\ token_call = NoCall

ContainerIdle ==
    /\ _azure_client = 0
    /\ _compute_client = 0
    /\ _pricing_client = 0
    /\ _sku_service = 0
    /\ constructed = <<>>
    /\ container_log = <<>>

MoreIdle == RetryIdle /\ TokenIdle /\ ContainerIdle

LaterIdle == RerunIdle /\ FilterIdle /\ ConcIdle /\ MoreIdle

(***************************************************************************)
(* The recommendation engine: a caller builds a pool and calls             *)
(* recommend_top_skus once.                                                *)
(***************************************************************************)
RecInit == RecIdle /\ NormIdle /\ SkuIdle /\ RouteIdle /\ LaterIdle

PoolNames == {pool[i].name : i \in DOMAIN pool}

\* the caller's list grows by one candidate
AddSku(s) ==
    /\ result.status = "none"
    /\ Len(pool) < MaxPool
    /\ s.name \notin PoolNames
    /\ pool' = Append(pool, s)
    /\ UNCHANGED <<criteria, limit, result, normVars, skuVars, routeVars,
                   laterVars>>

\* RecommendationService.recommend_top_skus(pool, c, l)
Recommend(c, l) ==
    /\ result.status = "none"
    /\ criteria' = c
    /\ limit' = l
    /\ result' = recommend_top_skus(pool, c, l)
    /\ UNCHANGED <<pool, normVars, skuVars, routeVars, laterVars>>

RecNext ==
    \/ \E s \in SkuUniverse : AddSku(s)
    \/ \E c \in CriteriaSet, l \in Limits : Recommend(c, l)

SpecRec == RecInit /\ [][RecNext]_vars

(***************************************************************************)
(* The normalizer: one raw record, drawn from every combination of name,   *)
(* family, spot flag, restrictions and resource type, is normalized by     *)
(* each of the three normalizers and listed by the service.                *)
(***************************************************************************)
RawNames ==
    {"Standard_D2s_v3", "Standard_B2s", "STANDARD_B4MS",
     "Standard_NC4as_T4_v3", NoneStr}

RawFamilies ==
    {"standardDSv3Family", "standardBSFamily", "Standard_BsFamily",
     "STANDARDBASV2FAMILY", NoneStr}

SpotFlags ==
    {<<Capability("LowPriorityCapable", PyTrue)>>,
     <<Capability("lowprioritycapable", PyS("TRUE"))>>,
     <<Capability("LowPriorityCapable", PyS("1"))>>,
     <<Capability("LowPriorityCapable", PyS("False"))>>,
     <<>>}

RawRestrictions ==
    {<<>>,
     <<Restriction("NotAvailableForSubscription", <<>>)>>,
     <<Restriction("notavailableforsubscription", <<"westus", "EastUS">>)>>,
     <<Restriction("NotAvailableForSubscription", <<"westus">>)>>}

ResourceTypes == {"virtualMachines", "disks"}

TargetRegions == {Eastus, "EastUS"}

RawRecords ==
    {RawSku(resource_type, name, family, "size",
            flag \o <<Capability("vCPUs", PyS("2")),
                      Capability("MemoryGB", PyS("8"))>>,
            restrictions, <<LocationInfo("eastus", <<"1", "2">>)>>) :
       resource_type \in ResourceTypes, name \in RawNames,
       family \in RawFamilies, flag \in SpotFlags,
       restrictions \in RawRestrictions}

NormInit ==
    /\ raw_sku \in RawRecords
    /\ target_region \in TargetRegions
    /\ normalized = NotExtracted
    /\ listed = NoCall
    /\ RecIdle /\ SkuIdle /\ RouteIdle /\ LaterIdle

\* the three normalizers are applied to the record
Extract ==
    /\ normalized = NotExtracted
    /\ normalized' =
         [compute_client |-> _extract_sku_specs(raw_sku, target_region),
          client |-> Client_extract_sku_specs(raw_sku, target_region),
          backend |-> AzureSKUClient_sku_dict(raw_sku, target_region)]
    /\ UNCHANGED <<raw_sku, target_region, listed, recVars, skuVars,
                   routeVars, laterVars>>

\* then SkuService.list_spot_skus(target_region, include_gpu=g) runs over a
\* catalog that holds the record, with an empty cache
ListRecord(g) ==
    /\ normalized # NotExtracted
    /\ listed = NoCall
    /\ listed' = list_spot_skus(EmptyCache, <<raw_sku>>, TRUE, TRUE,
                                target_region, g, None, None, FALSE, "USD")
    /\ UNCHANGED <<raw_sku, target_region, normalized, recVars, skuVars,
                   routeVars, laterVars>>

NormNext ==
    \/ Extract
    \/ \E g \in BOOLEAN : ListRecord(g)

SpecNorm == NormInit /\ [][NormNext]_vars

(***************************************************************************)
(* The SKU service: calls of list_spot_skus against one catalog, with the  *)
(* catalog source and the pricing source up or down, sharing the cache.    *)
(***************************************************************************)
RECURSIVE SeqsUpTo(_, _)
SeqsUpTo(S, n) ==
    IF n = 0 THEN {<<>>}
    ELSE SeqsUpTo(S, n - 1)
         \cup {Append(seq, x) : seq \in {s \in SeqsUpTo(S, n - 1) :
                                            Len(s) = n - 1}, x \in S}

Catalogs == SeqsUpTo(RawUniverse, MaxCatalog)

Params(region, include_gpu, max_vcpus, max_memory_gb, include_pricing) ==
    [region |-> region, include_gpu |-> include_gpu,
     max_vcpus |-> max_vcpus, max_memory_gb |-> max_memory_gb,
     include_pricing |-> include_pricing, currency_code |-> "USD"]

\* the calls the model makes: both GPU modes, with and without pricing, a
\* region that needs normalizing, numeric ceilings, and a blank region
CallParams ==
    {Params(Eastus, FALSE, None, None, TRUE),
     Params(" EastUS ", TRUE, None, None, TRUE),
     Params(Eastus, FALSE, None, None, FALSE),
     Params(Eastus, FALSE, 2, 8, FALSE),
     Params("  ", FALSE, None, None, TRUE)}

\* the condition of the catalog source and the pricing source during a
\* call; with the catalog source down the pricing source is never reached
Sources(catalog_up, pricing_up) ==
    [catalog_up |-> catalog_up, pricing_up |-> pricing_up]

SourceConditions ==
    {Sources(TRUE, TRUE), Sources(FALSE, TRUE), Sources(TRUE, FALSE)}

SkuInit ==
    /\ catalog \in Catalogs
    /\ sku_cache = EmptyCache
    /\ call = NoCall
    /\ RecIdle /\ NormIdle /\ RouteIdle /\ LaterIdle

\* the call is recorded with what it returned or raised, and the cache is
\* what the call left
Returned(p, sources, out) ==
    /\ call' = [status |-> out.status, items |-> out.items,
                io |-> out.io, params |-> p,
                catalog_up |-> sources.catalog_up,
                pricing_up |-> sources.pricing_up]
    /\ sku_cache' = out.cache

\* one call of SkuService.list_spot_skus, from entry to return or raise
ListSpotSkus(p, sources) ==
    /\ Returned(p, sources,
                list_spot_skus(sku_cache, catalog, sources.catalog_up,
                               sources.pricing_up, p.region, p.include_gpu,
                               p.max_vcpus, p.max_memory_gb,
                               p.include_pricing, p.currency_code))
    /\ UNCHANGED <<catalog, recVars, normVars, routeVars, laterVars>>

\* the TTL of a cache entry runs out
Expire(key) ==
    /\ key \in DOMAIN sku_cache
    /\ sku_cache' = [k \in DOMAIN sku_cache \ {key} |-> sku_cache[k]]
    /\ UNCHANGED <<catalog, call, recVars, normVars, routeVars, laterVars>>

SkuNext ==
    \/ \E p \in CallParams, sources \in SourceConditions :
          ListSpotSkus(p, sources)
    \/ \E key \in DOMAIN sku_cache : Expire(key)

SpecSku == SkuInit /\ [][SkuNext]_vars

(***************************************************************************)
(* The endpoint: requests to /v1/spot-recommendations, one after the       *)
(* other, against a service with or without the eviction-rate keyword.     *)
(***************************************************************************)
RouteCatalogs == {<<RawB2s>>, <<RawD2s>>, <<RawD4ps, RawD2s, RawNC4>>}

RequestRegions == {Eastus, "", "  "}
RequestLimits == {DefaultLimit, 0, 11}
RequestModes == {"balanced", "fastest"}
RequestCosts == {None, 1}
RequestRates == {NoneStr, "", "0-5", "25+"}
RequestPreferences == {NoneStr, "", "arm64"}

\* the number of parameters in which a request differs from the default one
Deviations(req) ==
    Cardinality({field \in DOMAIN req : req[field] # DefaultRequest[field]})

\* the requests of the model: the default request changed in one parameter,
\* or in two of the parameters that are checked after the limit and the
\* mode
Requests ==
    {req \in {Request(region, l, mode, cost, rate, preference, gpu) :
                region \in RequestRegions, l \in RequestLimits,
                mode \in RequestModes, cost \in RequestCosts,
                rate \in RequestRates, preference \in RequestPreferences,
                gpu \in BOOLEAN} :
       \/ Deviations(req) <= 1
       \/ /\ Deviations(req) = 2
          /\ req.region = DefaultRequest.region
          /\ req.limit = DefaultRequest.limit
          /\ req.optimize_for = DefaultRequest.optimize_for}

\* the condition of the three sources during a request
Upstream(catalog_up, pricing_up, eviction_up, cache_before) ==
    [catalog_up |-> catalog_up, pricing_up |-> pricing_up,
     eviction_up |-> eviction_up, cache_before |-> cache_before]

UpstreamConditions ==
    {<<TRUE, TRUE, TRUE>>, <<FALSE, TRUE, TRUE>>, <<TRUE, FALSE, TRUE>>,
     <<TRUE, TRUE, FALSE>>}

RouteInit ==
    /\ service_params \in {ListSpotSkusParams, ListSpotSkusParamsWithEviction}
    /\ catalog \in RouteCatalogs
    /\ sku_cache = EmptyCache
    /\ call = NoCall
    /\ upstream = NoUpstream
    /\ request = DefaultRequest
    /\ response = NoResponse
    /\ RecIdle /\ NormIdle /\ LaterIdle

\* the request is answered, and the cache is what the request left
Answered(req, up, answer) ==
    /\ request' = req
    /\ upstream' = up
    /\ response' = answer
    /\ sku_cache' = answer.cache

\* the request under the condition up of the sources
Handle(req, up) ==
    Answered(req, up,
             get_spot_recommendations(service_params, sku_cache, catalog,
                                      up, req))

\* one request, from the validation to the answer
GetSpotRecommendations(req, condition) ==
    /\ Handle(req, Upstream(condition[1], condition[2], condition[3],
                            sku_cache))
    /\ UNCHANGED <<service_params, catalog, call, recVars, normVars, laterVars>>

RouteNext ==
    \E req \in Requests, condition \in UpstreamConditions :
        GetSpotRecommendations(req, condition)

SpecRoute == RouteInit /\ [][RouteNext]_vars


(***************************************************************************)
(* Repeated scoring: a caller holds one pool and calls recommend_top_skus  *)
(* on it again and again, with criteria and limits that change from call   *)
(* to call.                                                                *)
(***************************************************************************)
\* the caller's list after a call.  recommend_top_skus builds filtered_skus
\* and scored_skus as new lists, each scored record as a new dict
\* ({**sku, ...}), and sorts scored_skus only: the caller's list and its
\* dicts are left as they were.
PoolAfterRunFilteredInPlace(skus, c) == _apply_constraints(skus, c)

\* variant that writes the score of a candidate into the caller's record
PoolAfterRunScoredInPlace(skus, c) ==
    [i \in DOMAIN skus |->
       IF PassesConstraints(Candidate(skus[i]), c)
       THEN [recommendation_score |->
               _calculate_sku_score(Candidate(skus[i]),
                                    _apply_constraints(Candidates(skus), c),
                                    c).total_score] @@ skus[i]
       ELSE skus[i]]

PoolAfterRun(skus, c) == skus

ScoringRun(c, l, r) == [criteria |-> c, limit |-> l, result |-> r]

RerunUniverse == {s \in SkuUniverse : s.name \in {"S1", "S2", "S5", "S6", "S7"}}

RerunPools ==
    {p \in SeqsUpTo(RerunUniverse, 2) :
        \A i, j \in DOMAIN p : i # j => p[i].name # p[j].name}

\* the default criteria, a cost ceiling that removes the expensive
\* candidates, and the reliability mode with an architecture preference
RerunCriteria ==
    {DefaultCriteria,
     Criteria("balanced", NoneStr, DefaultWeights, 1, NoneStr, 1),
     Criteria("reliability", "Arm64", DefaultWeights, None, "5-10", 1)}

RerunLimits == {1, 10}

RerunInit ==
    /\ pool \in RerunPools
    /\ criteria = DefaultCriteria
    /\ limit = DefaultLimit
    /\ result = NotRun
    /\ scoring_runs = <<>>
    /\ NormIdle /\ SkuIdle /\ RouteIdle /\ FilterIdle /\ ConcIdle /\ MoreIdle

\* RecommendationService.recommend_top_skus(pool, c, l), on the list as the
\* earlier calls left it
Rescore(c, l) ==
    /\ Len(scoring_runs) < MaxRuns
    /\ criteria' = c
    /\ limit' = l
    /\ result' = recommend_top_skus(pool, c, l)
    /\ pool' = PoolAfterRun(pool, c)
    /\ scoring_runs' = Append(scoring_runs,
                              ScoringRun(c, l, recommend_top_skus(pool, c, l)))
    /\ UNCHANGED <<normVars, skuVars, routeVars, filterVars, concVars, moreVars>>

RerunNext == \E c \in RerunCriteria, l \in RerunLimits : Rescore(c, l)

SpecRerun == RerunInit /\ [][RerunNext]_vars

(***************************************************************************)
(* The filter of the backend app: filter_and_shape_items is called once on *)
(* an item list in which names repeat, names are missing, numbers are      *)
(* missing or zero and GPU items occur.                                    *)
(***************************************************************************)
Item(vmSku, vCPUs, memoryGB, gpu, supportsSpot, zones, vmSeries) ==
    [vmSku |-> vmSku, vCPUs |-> vCPUs, memoryGB |-> memoryGB, gpu |-> gpu,
     supportsSpot |-> supportsSpot, zones |-> zones, vmSeries |-> vmSeries]

\* D2 occurs three times: with other scalars and zones, and with a missing
\* vCPUs, a zero memoryGB and no gpu, supportsSpot and vmSeries keys; E8 has
\* no numbers and no zones; two items have no name; one item is empty
ItemD2 == Item("D2", 2, 8, FALSE, TRUE, <<"2", "1">>, "Dsv3")
ItemD2Other == Item("D2", 4, 16, TRUE, FALSE, <<"3">>, "Other")
ItemD2Bare == [vmSku |-> "D2", vCPUs |-> None, memoryGB |-> 0, zones |-> <<"1", "4">>]
ItemNC4 == Item("NC4", 4, 28, TRUE, TRUE, <<"1">>, "NC")
ItemE8 == Item("E8", None, None, FALSE, TRUE, <<>>, "Esv5")

ItemUniverse ==
    {ItemD2, ItemD2Other, ItemD2Bare, ItemNC4, ItemE8,
     Item(NoneStr, 2, 8, FALSE, TRUE, <<"1">>, "Dsv3"),
     Item("", 2, 8, FALSE, TRUE, <<"1">>, "Dsv3"),
     <<>>}

ItemLists == SeqsUpTo(ItemUniverse, MaxItems)

DefaultFilterParams ==
    FilterParams(None, None, None, None, FALSE, TRUE, NoneStr, NoneStr,
                 NoneStr, "any", "vmSku", "asc", 0, 200, NoneStr)

\* the calls: the defaults, each GPU mode with and without the spot filter,
\* ceilings and floors, zone requests in both modes, name and series
\* filters, sorting, paging and field selection
FilterCalls ==
    {DefaultFilterParams,
     [DefaultFilterParams EXCEPT !.gpu = TRUE],
     [DefaultFilterParams EXCEPT !.gpu = TRUE, !.supports_spot = FALSE],
     [DefaultFilterParams EXCEPT !.supports_spot = FALSE],
     [DefaultFilterParams EXCEPT !.max_vcpus = 2, !.max_memory_gb = 8,
                                 !.supports_spot = FALSE],
     [DefaultFilterParams EXCEPT !.max_vcpus = 0, !.gpu = TRUE],
     [DefaultFilterParams EXCEPT !.min_vcpus = 1, !.min_memory_gb = 8],
     [DefaultFilterParams EXCEPT !.zones = "1"],
     [DefaultFilterParams EXCEPT !.zones = "1, 3", !.supports_spot = FALSE],
     [DefaultFilterParams EXCEPT !.zones = "1,2", !.zones_match = "all"],
     [DefaultFilterParams EXCEPT !.zones = "1 ,4", !.zones_match = "all",
                                 !.supports_spot = FALSE, !.gpu = TRUE],
     [DefaultFilterParams EXCEPT !.zones = ""],
     [DefaultFilterParams EXCEPT !.sku_like = "d", !.series = "dsv3, nc"],
     [DefaultFilterParams EXCEPT !.sort_by = "vCPUs", !.sort_order = "desc",
                                 !.gpu = TRUE, !.offset = 1, !.limit = 1],
     [DefaultFilterParams EXCEPT !.fields = "vmSku, zones,vmSeries",
                                 !.supports_spot = FALSE]}

FilterInit ==
    /\ item_list \in ItemLists
    /\ filter_call = NoCall
    /\ RecIdle /\ NormIdle /\ SkuIdle /\ RouteIdle /\ RerunIdle /\ ConcIdle /\ MoreIdle

\* the call is recorded with the deduplicated pool it built and with what it
\* returned
FilterReturned(p, deduped, out) ==
    filter_call' = [status |-> "ok", params |-> p, pool |-> deduped,
                    items |-> out.items, total |-> out.total]

\* one call of filter_and_shape_items(item_list, **p)
FilterAndShape(p) ==
    /\ filter_call = NoCall
    /\ FilterReturned(p, Dedupe(Clean(item_list)),
                      filter_and_shape_items(item_list, p))
    /\ UNCHANGED <<item_list, recVars, normVars, skuVars, routeVars,
                   rerunVars, concVars, moreVars>>

FilterNext == \E p \in FilterCalls : FilterAndShape(p)

SpecFilter == FilterInit /\ [][FilterNext]_vars

(***************************************************************************)
(* The two numeric ceilings side by side: list_spot_skus of the API and    *)
(* filter_and_shape_items of the backend app, each called on data with     *)
(* missing numbers, numbers equal to the ceiling and numbers above it.     *)
(***************************************************************************)
CeilingCatalogs == {<<RawUnnamed, RawD4ps>>, <<RawD2s, RawD4ps>>}

CeilingItemLists ==
    {<<ItemD2Bare, ItemD2Other, ItemE8>>, <<ItemD2, ItemE8>>}

CeilingsInit ==
    /\ catalog \in CeilingCatalogs
    /\ sku_cache = EmptyCache
    /\ call = NoCall
    /\ item_list \in CeilingItemLists
    /\ filter_call = NoCall
    /\ RecIdle /\ NormIdle /\ RouteIdle /\ RerunIdle /\ ConcIdle /\ MoreIdle

SpecCeilings == CeilingsInit /\ [][SkuNext \/ FilterNext]_vars

(***************************************************************************)
(* Concurrent calls of list_spot_skus with one cache key.  The calls are   *)
(* coroutines on one event loop: a call runs without interruption from     *)
(* its entry or from the return of an await to its next await, its return  *)
(* or its raise, and other calls run only while it waits at                *)
(* "await self.client.list_raw_skus" or at                                 *)
(* "await self.pricing_client.get_pricing_for_skus".  Each call builds a   *)
(* list object of its own; the cache entry and the value a call returns    *)
(* are references to such an object.                                       *)
(***************************************************************************)
ConcCatalogs ==
    {<<RawD4ps, RawD2s>>, <<RawD2s>>, <<RawNC4>>, <<RawUnnamed, RawD2s>>}

\* parameter sets with one cache key among those of a pricing flag: the
\* region is spelled in two ways
ConcParams ==
    {Params(Eastus, FALSE, None, None, TRUE),
     Params(" EastUS ", FALSE, None, None, TRUE),
     Params(Eastus, FALSE, None, None, FALSE)}

\* cache_key of a call
KeyOf(p) ==
    CacheKey(NormalizeRegion(p.region), p.include_gpu, p.max_vcpus,
             p.max_memory_gb, p.include_pricing, p.currency_code)

SharedKey == KeyOf(shared_params)

\* a call: its parameters, where the coroutine stands, how it ended, the
\* catalog and the pricing condition it met, the call whose list object it
\* returned and what that object held at the return
CallState(p, pc, status, raw_skus, pricing_up, ref, items) ==
    [params |-> p, pc |-> pc, status |-> status, raw_skus |-> raw_skus,
     pricing_up |-> pricing_up, ref |-> ref, items |-> items]

ConcInit ==
    /\ shared_params \in ConcParams
    /\ calls = <<>>
    /\ lists = <<>>
    /\ cache_history = <<>>
    /\ catalog = <<>>
    /\ sku_cache = EmptyCache
    /\ call = NoCall
    /\ RecIdle /\ NormIdle /\ RouteIdle /\ RerunIdle /\ FilterIdle /\ MoreIdle

OthersUnchanged == UNCHANGED <<shared_params, catalog, call, recVars, normVars, routeVars, rerunVars, filterVars, moreVars>>

\* entry to the first await: the region check, the cache lookup, and on a
\* hit the return of the cached object
Enter(p) ==
    /\ Len(calls) < MaxCalls
    /\ KeyOf(p) = SharedKey
    /\ calls' = Append(calls,
          IF SharedKey \in DOMAIN sku_cache
          THEN CallState(p, "done", "ok", <<>>, TRUE, sku_cache[SharedKey],
                         lists[sku_cache[SharedKey]])
          ELSE CallState(p, "await_catalog", "none", <<>>, TRUE, 0, <<>>))
    /\ lists' = Append(lists, <<>>)
    /\ UNCHANGED <<sku_cache, cache_history>>
    /\ OthersUnchanged

\* set_cached(cache_key, processed_skus); return processed_skus
Finish(t, raw_skus, pricing_up, processed_skus) ==
    /\ lists' = [lists EXCEPT ![t] = processed_skus]
    /\ sku_cache' = set_cached(sku_cache, SharedKey, t)
    /\ cache_history' = Append(cache_history, t)
    /\ calls' = [calls EXCEPT ![t] =
          CallState(calls[t].params, "done", "ok", raw_skus, pricing_up, t,
                    processed_skus)]

\* the call ends with an exception and has built nothing
Raise(t, status, raw_skus) ==
    /\ calls' = [calls EXCEPT ![t] =
          CallState(calls[t].params, "done", status, raw_skus, TRUE, 0,
                    <<>>)]
    /\ UNCHANGED <<lists, sku_cache, cache_history>>

\* the filter loop and the sort are over: the call waits for the prices
\* with its sorted list, or caches and returns it
AfterSort(t, raw_skus, processed_skus) ==
    IF FetchesPrices(processed_skus, calls[t].params.include_pricing)
    THEN /\ lists' = [lists EXCEPT ![t] = processed_skus]
         /\ calls' = [calls EXCEPT ![t] =
               CallState(calls[t].params, "await_pricing", "none", raw_skus,
                         TRUE, 0, <<>>)]
         /\ UNCHANGED <<sku_cache, cache_history>>
    ELSE Finish(t, raw_skus, TRUE, processed_skus)

\* the filter loop appended kept
AfterLoop(t, raw_skus, kept) ==
    IF SortRaises(kept) THEN Raise(t, "TypeError", raw_skus)
    ELSE AfterSort(t, raw_skus, SortByKey(kept))

\* from the return of list_raw_skus to the next await, return or raise
CatalogReturns(t, raw_skus, catalog_up) ==
    /\ calls[t].pc = "await_catalog"
    /\ IF ~catalog_up THEN Raise(t, "RuntimeError", <<>>)
       ELSE AfterLoop(t, raw_skus,
                      ProcessSkus(raw_skus,
                                  NormalizeRegion(calls[t].params.region),
                                  calls[t].params.include_gpu,
                                  calls[t].params.max_vcpus,
                                  calls[t].params.max_memory_gb))
    /\ OthersUnchanged

\* from the return or the failure of get_pricing_for_skus to the return of
\* the call
PricingReturns(t, pricing_up) ==
    /\ calls[t].pc = "await_pricing"
    /\ Finish(t, calls[t].raw_skus, pricing_up,
              PricingStep(lists[t], NormalizeRegion(calls[t].params.region),
                          TRUE, pricing_up))
    /\ OthersUnchanged

\* the TTL of the entry runs out
ExpireShared ==
    /\ SharedKey \in DOMAIN sku_cache
    /\ sku_cache' = [k \in DOMAIN sku_cache \ {SharedKey} |-> sku_cache[k]]
    /\ cache_history' = Append(cache_history, 0)
    /\ UNCHANGED <<calls, lists>>
    /\ OthersUnchanged

ConcNext ==
    \/ \E p \in ConcParams : Enter(p)
    \/ \E t \in DOMAIN calls, raw_skus \in ConcCatalogs, catalog_up \in BOOLEAN :
          CatalogReturns(t, raw_skus, catalog_up)
    \/ \E t \in DOMAIN calls, pricing_up \in BOOLEAN :
          PricingReturns(t, pricing_up)
    \/ ExpireShared

SpecConc == ConcInit /\ [][ConcNext]_vars

(***************************************************************************)
(* Cached lists in the hands of callers: beside the calls above, a caller  *)
(* passes the list object that a call returned to recommend_top_skus, as   *)
(* get_spot_recommendations does.  The cache entry, the value of a hit and *)
(* the caller's list are one object.                                       *)
(***************************************************************************)
\* a ceiling that removes candidates, and a blend with a preference
SnapshotCriteria ==
    {Criteria("balanced", NoneStr, DefaultWeights, 1, NoneStr, 1),
     Criteria("cost", "Arm64", DefaultWeights, None, NoneStr, 1)}

SnapshotLimits == {1, DefaultLimit}

\* recommend_top_skus(skus, c, l) on the list that call t returned
ScoreReturned(t, c, l) ==
    /\ calls[t].pc = "done"
    /\ calls[t].status = "ok"
    /\ pool' = Candidates(lists[calls[t].ref])
    /\ criteria' = c
    /\ limit' = l
    /\ result' = recommend_top_skus(Candidates(lists[calls[t].ref]), c, l)
    /\ lists' = [lists EXCEPT ![calls[t].ref] =
                    PoolAfterRun(lists[calls[t].ref], c)]
    /\ UNCHANGED <<shared_params, calls, cache_history, skuVars, normVars, routeVars, rerunVars, filterVars, moreVars>>

ScoreNext ==
    \E t \in DOMAIN calls, c \in SnapshotCriteria, l \in SnapshotLimits :
       ScoreReturned(t, c, l)

\* the calls ask for prices, so that a stored list carries price fields
SnapshotInit ==
    /\ ConcInit
    /\ shared_params = Params(Eastus, FALSE, None, None, TRUE)

\* what the provider's catalog holds at a fetch
SnapshotCatalogs == {<<RawD4ps, RawD2s>>, <<RawD2s>>}

SnapshotNext ==
    \/ Enter(shared_params)
    \/ \E t \in DOMAIN calls, raw_skus \in SnapshotCatalogs, catalog_up \in BOOLEAN :
          CatalogReturns(t, raw_skus, catalog_up)
    \/ \E t \in DOMAIN calls, pricing_up \in BOOLEAN :
          PricingReturns(t, pricing_up)
    \/ ExpireShared
    \/ ScoreNext

SpecSnapshot == SnapshotInit /\ [][SnapshotNext]_vars

(***************************************************************************)
(* PricingClient._make_request: one call with its retries.  An attempt is  *)
(* one "await self.client.request" followed by raise_for_status; the       *)
(* recursive call of a retry runs inside the except block, so an           *)
(* exception that leaves it is not handled again by the caller's handlers. *)
(***************************************************************************)
MAX_RETRIES == 3

\* what an attempt ends in: a response without error status, a 4xx or a
\* 5xx response (HTTPStatusError), httpx.ConnectError,
\* httpx.TimeoutException, or another exception of the transport
AttemptOutcomes ==
    {"success", "http_4xx", "http_5xx", "connect_error", "timeout",
     "other_error"}

\* the outcomes that the two handlers retry
RetriedOutcomes == {"http_5xx", "connect_error", "timeout"}

\* variant that allows one more retry
MayRetryInclusive(retry_count) == retry_count <= MAX_RETRIES

\* "retry_count < self.MAX_RETRIES"
MayRetry(retry_count) == retry_count < MAX_RETRIES

\* "wait_time = 2**retry_count"
wait_time(retry_count) == 2 ^ retry_count

RequestState(status, retry_count) ==
    [status |-> status, retry_count |-> retry_count]

RetryInit ==
    /\ attempts = <<>>
    /\ waits = <<>>
    /\ request_state = NoCall
    /\ RecIdle /\ NormIdle /\ SkuIdle /\ RouteIdle
    /\ RerunIdle /\ FilterIdle /\ ConcIdle /\ TokenIdle /\ ContainerIdle

RetryOthersUnchanged == UNCHANGED <<recVars, normVars, skuVars, routeVars, rerunVars, filterVars, concVars, tokenVars, containerVars>>

\* _make_request(method, url, params) is called, retry_count = 0
MakeRequest ==
    /\ request_state = NoCall
    /\ request_state' = RequestState("requesting", 0)
    /\ UNCHANGED <<attempts, waits>>
    /\ RetryOthersUnchanged

\* the attempt ends: the response is returned, or the exception is raised,
\* or the handler goes to sleep before the retry
AttemptEnds(outcome) ==
    /\ request_state.status = "requesting"
    /\ attempts' = Append(attempts, outcome)
    /\ IF outcome = "success"
       THEN /\ request_state' = RequestState("returned",
                                             request_state.retry_count)
            /\ waits' = waits
       ELSE IF outcome \in RetriedOutcomes
               /\ MayRetry(request_state.retry_count)
       THEN /\ request_state' = RequestState("sleeping",
                                             request_state.retry_count)
            /\ waits' = Append(waits, wait_time(request_state.retry_count))
       ELSE /\ request_state' = RequestState("raised",
                                             request_state.retry_count)
            /\ waits' = waits
    /\ RetryOthersUnchanged

\* asyncio.sleep is over: _make_request(method, url, params, retry_count + 1)
Retry ==
    /\ request_state.status = "sleeping"
    /\ request_state' = RequestState("requesting",
                                     request_state.retry_count + 1)
    /\ UNCHANGED <<attempts, waits>>
    /\ RetryOthersUnchanged

RetryNext ==
    \/ MakeRequest
    \/ \E outcome \in AttemptOutcomes : AttemptEnds(outcome)
    \/ Retry

SpecRetry == RetryInit /\ [][RetryNext]_vars

\* every request ends (TIMEOUT_SECONDS bounds an attempt) and every sleep
\* ends
SpecRetryFair == RetryInit /\ [][RetryNext]_vars /\ WF_vars(RetryNext)

(***************************************************************************)
(* AzureClient.get_management_token and AzureClient.close.  The clock      *)
(* counts seconds; a token is the number of its issue, 0 stands for None   *)
(* in _token_cache and _token_expires_at.  get_management_token has no     *)
(* await, so a call is one step.                                           *)
(***************************************************************************)
TOKEN_BUFFER == 300

\* the seconds from the issue of a token to its expires_on
TokenLifetimes == {300, 400, 500}

\* what credential.get_token does: a token of one of the lifetimes, or an
\* exception (0)
CredentialOutcomes == TokenLifetimes \cup {0}

\* variant whose buffer test admits the instant 300 seconds before expiry
CachedTokenUsableInclusive(force_refresh, cache, expires_at, current_time) ==
    /\ ~force_refresh
    /\ cache # 0
    /\ expires_at # 0
    /\ current_time <= expires_at - TOKEN_BUFFER

\* "not force_refresh and self._token_cache and self._token_expires_at
\*  and current_time < self._token_expires_at - 300"
CachedTokenUsable(force_refresh, cache, expires_at, current_time) ==
    /\ ~force_refresh
    /\ cache # 0
    /\ expires_at # 0
    /\ current_time < expires_at - TOKEN_BUFFER

TokenCall(status, force_refresh, token, acquired) ==
    [status |-> status, force_refresh |-> force_refresh, at |-> clock,
     token |-> token, acquired |-> acquired,
     cache_before |-> _token_cache, expires_before |-> _token_expires_at]

TokenInit ==
    /\ clock = 0
    /\ _token_cache = 0
    /\ _token_expires_at = 0
    /\ issued = 0
    /\ token_call = NoCall
    /\ RecIdle /\ NormIdle /\ SkuIdle /\ RouteIdle
    /\ RerunIdle /\ FilterIdle /\ ConcIdle /\ RetryIdle /\ ContainerIdle

TokenOthersUnchanged == UNCHANGED <<recVars, normVars, skuVars, routeVars, rerunVars, filterVars, concVars, retryVars, containerVars>>

\* time passes
Tick ==
    /\ clock < MaxTicks * 100
    /\ clock' = clock + 100
    /\ UNCHANGED <<_token_cache, _token_expires_at, issued, token_call>>
    /\ TokenOthersUnchanged

\* get_management_token(force_refresh), the credential answering with
\* outcome when it is asked
get_management_token(force_refresh, outcome) ==
    /\ IF CachedTokenUsable(force_refresh, _token_cache, _token_expires_at,
                            clock)
       THEN /\ token_call' = TokenCall("returned", force_refresh,
                                       _token_cache, FALSE)
            /\ UNCHANGED <<_token_cache, _token_expires_at, issued>>
       ELSE IF outcome = 0
       THEN /\ token_call' = TokenCall("raised", force_refresh, 0, TRUE)
            /\ UNCHANGED <<_token_cache, _token_expires_at, issued>>
       ELSE /\ issued < MaxTokens
            /\ issued' = issued + 1
            /\ _token_cache' = issued + 1
            /\ _token_expires_at' = clock + outcome
            /\ token_call' = TokenCall("returned", force_refresh,
                                       issued + 1, TRUE)
    /\ clock' = clock
    /\ TokenOthersUnchanged

\* close()
Close ==
    /\ _token_cache' = 0
    /\ _token_expires_at' = 0
    /\ UNCHANGED <<clock, issued, token_call>>
    /\ TokenOthersUnchanged

TokenNext ==
    \/ Tick
    \/ \E force_refresh \in BOOLEAN, outcome \in CredentialOutcomes : get_management_token(force_refresh, outcome)
    \/ Close

SpecToken == TokenInit /\ [][TokenNext]_vars

(***************************************************************************)
(* DependencyContainer.  constructed lists the kinds of the objects        *)
(* constructed so far, in order; an instance is its position in that list  *)
(* and 0 stands for None.  container_log lists the calls made on the       *)
(* container with what each returned and constructed.                      *)
(***************************************************************************)
\* the keywords of the SkuService(...) call in create_sku_service
SkuServiceCallKeywords == {"client", "pricing_client", "eviction_client"}

\* the parameters of SkuService.__init__
SkuServiceInitParams == {"client", "pricing_client"}

Container ==
    [azure |-> _azure_client, compute |-> _compute_client,
     pricing |-> _pricing_client, sku |-> _sku_service,
     constructed |-> constructed]

\* a constructor call: the new object is the last of the list
Construct(c, kind) == [c EXCEPT !.constructed = Append(@, kind)]

\* create_azure_client
WithAzureClient(c) ==
    IF c.azure = 0
    THEN [Construct(c, "AzureClient") EXCEPT !.azure = Len(c.constructed) + 1]
    ELSE c

\* create_compute_client
WithComputeClient(c) ==
    IF c.compute = 0
    THEN [Construct(WithAzureClient(c), "ComputeClient") EXCEPT !.compute = Len(WithAzureClient(c).constructed) + 1]
    ELSE c

\* create_pricing_client
WithPricingClient(c) ==
    IF c.pricing = 0
    THEN [Construct(c, "PricingClient") EXCEPT !.pricing = Len(c.constructed) + 1]
    ELSE c

\* create_sku_service up to the evaluation of the arguments of SkuService(...)
WithSkuServiceArguments(c) ==
    WithPricingClient(WithComputeClient(Construct(WithAzureClient(c), "EvictionClient")))

\* create_sku_service: the container after the call
WithSkuService(c) ==
    IF c.sku # 0
    THEN c
    ELSE IF CallBinds(SkuServiceCallKeywords, SkuServiceInitParams)
    THEN [Construct(WithSkuServiceArguments(c), "SkuService") EXCEPT !.sku = Len(WithSkuServiceArguments(c).constructed) + 1]
    ELSE WithSkuServiceArguments(c)

\* cleanup
Cleaned(c) == [c EXCEPT !.azure = 0, !.compute = 0, !.pricing = 0, !.sku = 0]

ContainerCall(op, status, returned, after) ==
    [op |-> op, status |-> status, returned |-> returned,
     made |-> SubSeq(after.constructed, Len(constructed) + 1,
                     Len(after.constructed))]

\* the call leaves the container as after and is logged
ContainerStep(op, status, returned, after) ==
    /\ _azure_client' = after.azure
    /\ _compute_client' = after.compute
    /\ _pricing_client' = after.pricing
    /\ _sku_service' = after.sku
    /\ constructed' = after.constructed
    /\ container_log' = Append(container_log,
                               ContainerCall(op, status, returned, after))
    /\ UNCHANGED <<recVars, normVars, skuVars, routeVars, rerunVars, filterVars, concVars, retryVars, tokenVars>>

ContainerInit ==
    /\ _azure_client = 0
    /\ _compute_client = 0
    /\ _pricing_client = 0
    /\ _sku_service = 0
    /\ constructed = <<>>
    /\ container_log = <<>>
    /\ RecIdle /\ NormIdle /\ SkuIdle /\ RouteIdle
    /\ RerunIdle /\ FilterIdle /\ ConcIdle /\ RetryIdle /\ TokenIdle

create_azure_client ==
    /\ Len(container_log) < MaxContainerOps
    /\ ContainerStep("create_azure_client", "returned", WithAzureClient(Container).azure, WithAzureClient(Container))

create_compute_client ==
    /\ Len(container_log) < MaxContainerOps
    /\ ContainerStep("create_compute_client", "returned", WithComputeClient(Container).compute, WithComputeClient(Container))

create_pricing_client ==
    /\ Len(container_log) < MaxContainerOps
    /\ ContainerStep("create_pricing_client", "returned", WithPricingClient(Container).pricing, WithPricingClient(Container))

\* the call raises TypeError when SkuService.__init__ does not take the
\* keywords, after the arguments were evaluated
create_sku_service ==
    /\ Len(container_log) < MaxContainerOps
    /\ ContainerStep("create_sku_service", IF WithSkuService(Container).sku # 0 THEN "returned" ELSE "raised", WithSkuService(Container).sku, WithSkuService(Container))

cleanup ==
    /\ Len(container_log) < MaxContainerOps
    /\ ContainerStep("cleanup", "returned", 0, Cleaned(Container))

ContainerNext ==
    \/ create_azure_client
    \/ create_compute_client
    \/ create_pricing_client
    \/ create_sku_service
    \/ cleanup

SpecContainer == ContainerInit /\ [][ContainerNext]_vars
(***************************************************************************)
(* Helpers of the properties of the recommendation engine.                 *)
(***************************************************************************)
Filtered == _apply_constraints(pool, criteria)

Items == result.items

PoolIndex(name) == CHOOSE i \in DOMAIN pool : pool[i].name = name

ItemNames == {Items[i].name : i \in DOMAIN Items}

\* position of the candidate called name in items (0: not in items)
RankOf(items, name) ==
    IF \E i \in DOMAIN items : items[i].name = name
    THEN CHOOSE i \in DOMAIN items : items[i].name = name
    ELSE 0

InUnit(r) == 0 <= r[1] /\ r[1] <= r[2] /\ r[2] > 0

BucketIndex(rate) == CHOOSE i \in DOMAIN EvictionBuckets : EvictionBuckets[i] = rate

\* C3: the result of recommend_top_skus is the first min(limit, |filtered|)
\* elements of the stable descending sort of the scored filtered pool: it has
\* that length, every element is a distinct filtered candidate with its score,
\* scores do not increase, equal scores keep pool order, and no omitted
\* candidate would sort before a returned one.
C3_TopOfStableSort ==
    result.status = "ok" =>
        /\ Len(Items) = Min(limit, Len(Filtered))
        /\ \A i \in DOMAIN Items :
             \E j \in DOMAIN Filtered :
                /\ Filtered[j].name = Items[i].name
                /\ Items[i].recommendation_score =
                     _calculate_sku_score(Filtered[j], Filtered, criteria).total_score
        /\ \A i, j \in DOMAIN Items :
             i < j =>
                /\ Items[i].name # Items[j].name
                /\ Items[i].recommendation_score >= Items[j].recommendation_score
                /\ (Items[i].recommendation_score = Items[j].recommendation_score
                      => PoolIndex(Items[i].name) < PoolIndex(Items[j].name))
        /\ \A j \in DOMAIN Filtered :
             Filtered[j].name \notin ItemNames =>
                \A i \in DOMAIN Items :
                   LET omitted == _calculate_sku_score(Filtered[j], Filtered,
                                                       criteria).total_score
                   IN  /\ omitted <= Items[i].recommendation_score
                       /\ (omitted = Items[i].recommendation_score
                             => PoolIndex(Items[i].name) < PoolIndex(Filtered[j].name))

\* a call that cut a larger filtered pool down to limit and returned two
\* candidates of equal score
C3_Witness ==
    /\ result.status = "ok"
    /\ Len(Items) = limit
    /\ Len(Filtered) > limit
    /\ \E i, j \in DOMAIN Items :
          i < j /\ Items[i].recommendation_score = Items[j].recommendation_score

C5_UnknownScoresBelowKnown ==
    result.status = "ok" =>
        \A i, j \in DOMAIN Items :
           (Items[i].eviction_rate \notin KnownBuckets
              /\ Items[j].eviction_rate \in KnownBuckets)
           => RatLT(Items[i].score_breakdown.eviction_score,
                    Items[j].score_breakdown.eviction_score)

\* the priced candidates of the filtered pool with the lowest price
Cheapest ==
    {Filtered[j].name : j \in {k \in DOMAIN Filtered :
        /\ Filtered[k].price # None
        /\ \A m \in DOMAIN Filtered :
              Filtered[m].price # None => Filtered[k].price <= Filtered[m].price}}

\* C9 (as claimed): a cheapest priced candidate that the balanced run returns
\* at some rank is returned by the cost run, on the same pool, limit and other
\* criteria, at that rank or a better one.
C9_CostRanksCheapestNoWorse ==
    (result.status = "ok" /\ criteria.optimize_for = "cost") =>
        LET balanced == recommend_top_skus(
                            pool, [criteria EXCEPT !.optimize_for = "balanced"],
                            limit).items
        IN  \A name \in Cheapest :
               RankOf(balanced, name) > 0 =>
                  /\ RankOf(Items, name) > 0
                  /\ RankOf(Items, name) <= RankOf(balanced, name)

\* X is at least as good as Y in the four respects the claim lists
DominatesAsClaimed(x, y) ==
    /\ x.price # None /\ y.price # None /\ x.price < y.price
    /\ x.eviction_rate \in KnownBuckets /\ y.eviction_rate \in KnownBuckets
    /\ BucketIndex(x.eviction_rate) < BucketIndex(y.eviction_rate)
    /\ Cardinality(x.zones) >= Cardinality(y.zones)
    /\ HasComputeData(x) /\ HasComputeData(y)
    /\ ComputeUnits4(x) > 0 /\ ComputeUnits4(y) > 0
    /\ RatLE(PricePerUnit(x), PricePerUnit(y))

\* C10 (as claimed): if X has a lower price, a lower-risk bucket, at least as
\* many zones and a cost per compute unit no higher than Y's, then X scores at
\* least as high as Y and is ranked above Y when the scores differ.
C10_MonotoneAsClaimed ==
    result.status = "ok" =>
        \A i, j \in DOMAIN Items :
           DominatesAsClaimed(Items[i], Items[j]) =>
              /\ Items[i].recommendation_score >= Items[j].recommendation_score
              /\ (Items[i].recommendation_score # Items[j].recommendation_score
                    => i < j)

\* C10 (amended): the same, for X whose architecture score is also at least
\* Y's.
C10_MonotoneWithArchitecture ==
    result.status = "ok" =>
        \A i, j \in DOMAIN Items :
           (/\ DominatesAsClaimed(Items[i], Items[j])
            /\ RatLE(Items[j].score_breakdown.architecture_score,
                     Items[i].score_breakdown.architecture_score))
           => /\ Items[i].recommendation_score >= Items[j].recommendation_score
              /\ (Items[i].recommendation_score # Items[j].recommendation_score
                    => i < j)

\* S2 is better than S6 in the four respects and of the same architecture,
\* and is ranked above it
C10_Witness ==
    /\ result.status = "ok"
    /\ criteria = DefaultCriteria
    /\ \E i, j \in DOMAIN Items :
          /\ i < j
          /\ DominatesAsClaimed(Items[i], Items[j])
          /\ Items[i].architecture = Items[j].architecture
          /\ Items[i].recommendation_score > Items[j].recommendation_score


(***************************************************************************)
(* Properties of the SKU service.                                          *)
(***************************************************************************)
CallMade == call.status # "none"
CallIo == IF CallMade THEN Range(call.io) ELSE {}

\* the spot SKUs of the catalog, as the normalizer sees them
CatalogSpecs ==
    {ExtractSpec(catalog[i], Eastus) : i \in DOMAIN catalog} \ {NoSpec}

\* C1: list_spot_skus is GPU-exclusive in both directions: a call with
\* include_gpu=false returns no item with has_gpu=true, and a call with
\* include_gpu=true returns no item with has_gpu=false, whatever the catalog.
C1_GpuExclusive ==
    call.status = "ok" =>
        \A i \in DOMAIN call.items :
            call.items[i].has_gpu = call.params.include_gpu

\* a call with include_gpu=true over a catalog that holds GPU and non-GPU
\* spot SKUs built a non-empty list
C1_Witness ==
    /\ call.status = "ok"
    /\ call.params.include_gpu
    /\ "set_cached" \in CallIo
    /\ call.items # <<>>
    /\ \E s \in CatalogSpecs : ~s.has_gpu

PriceFields ==
    {"price", "currency", "location", "effective_start", "effective_end",
     "meter_name", "product_name"}

\* what the same call returns from the same catalog without pricing
ItemsWithoutPricing ==
    list_spot_skus(EmptyCache, catalog, TRUE, TRUE, call.params.region,
                   call.params.include_gpu, call.params.max_vcpus,
                   call.params.max_memory_gb, FALSE,
                   call.params.currency_code).items

PricingFetchFailed == "get_pricing" \in CallIo /\ ~call.pricing_up

\* C8: list_spot_skus fails with the upstream error (RuntimeError) exactly
\* when its catalog fetch fails; when only the pricing fetch fails the call
\* returns the filtered, sorted items it returns without pricing, and none
\* of them carries a price field.
C8_OnlyCatalogFailureIsFatal ==
    CallMade =>
        /\ (call.status = "RuntimeError")
              <=> ("list_raw_skus" \in CallIo /\ ~call.catalog_up)
        /\ PricingFetchFailed =>
              /\ call.status = "ok"
              /\ call.items = ItemsWithoutPricing
              /\ \A i \in DOMAIN call.items :
                     DOMAIN call.items[i] \cap PriceFields = {}

\* the pricing fetch of a call failed although the pricing source has a
\* Linux Spot row for one of the listed SKUs
C8_Witness ==
    /\ CallMade
    /\ PricingFetchFailed
    /\ call.items # <<>>
    /\ \E i \in DOMAIN call.items :
           call.items[i].name
             \in DOMAIN get_pricing_for_skus(call.items, Eastus)

(***************************************************************************)
(* Properties of the normalizer.                                           *)
(***************************************************************************)
\* the name starts with "Standard_B", or the family with "Standard_B" or
\* "standardB", in any letter case
HasBSeriesPrefix(name, family) ==
    \/ startswith(lower(name), "standard_b")
    \/ startswith(lower(family), "standard_b")
    \/ startswith(lower(family), "standardb")

\* C2: each normalizer rejects every raw record whose name or family starts
\* with the B-series prefix, in any letter case and whatever its spot flag,
\* restrictions and resource type; and list_spot_skus lists no SKU with
\* such a name or family.
C2_BSeriesRejected ==
    /\ (HasBSeriesPrefix(raw_sku.name, raw_sku.family)
          /\ normalized # NotExtracted)
         => /\ normalized.compute_client = NoSpec
            /\ normalized.client = NoSpec
            /\ normalized.backend = NoSpec
    /\ listed.status # "none"
         => /\ listed.status = "ok"
            /\ \A i \in DOMAIN listed.items :
                   ~HasBSeriesPrefix(listed.items[i].name,
                                     listed.items[i].family)

\* a B-series record that passes every other filter (virtual machine, spot
\* capable, not restricted) has been normalized and listed
C2_Witness ==
    /\ HasBSeriesPrefix(raw_sku.name, raw_sku.family)
    /\ IsVirtualMachine(raw_sku)
    /\ IsSpotCapable(raw_sku)
    /\ ~IsRestricted(raw_sku, target_region)
    /\ normalized # NotExtracted
    /\ listed.status = "ok"

(***************************************************************************)
(* Properties of the recommendations endpoint.                             *)
(***************************************************************************)
Handled == response.status_code # 0

\* the request passes the validation that the interface describes
ValidRequest(req) ==
    /\ Truthy(req.region) /\ strip(req.region) # ""
    /\ req.limit >= 1 /\ req.limit <= 10
    /\ req.optimize_for \in Modes
    /\ req.architecture_preference \in {NoneStr, "x64", "Arm64"}
    /\ req.max_eviction_rate \in {NoneStr} \cup KnownBuckets

\* what the service lists for the request, under the condition of the
\* sources and with the cache that the request found
ListedForRequest ==
    list_spot_skus_with_eviction(upstream.cache_before, catalog,
        upstream.catalog_up, upstream.pricing_up, upstream.eviction_up,
        request.region, request.gpu, request.max_vcpus,
        request.max_memory_gb, TRUE, request.currency_code)

\* the catalog yields no spot SKU for the request, or the hard constraints
\* remove every SKU it yields
NothingToRecommend ==
    /\ ListedForRequest.status = "ok"
    /\ \/ ListedForRequest.items = <<>>
       \/ _apply_constraints(Candidates(ListedForRequest.items),
                             RequestCriteria(request)) = <<>>

\* C6: a valid request that has nothing to recommend is answered with a
\* success whose recommendations list is empty and whose metadata carries a
\* message, never with an error status.
C6_NothingToRecommendIsSuccess ==
    (Handled /\ ValidRequest(request) /\ NothingToRecommend)
        => /\ response.status_code = 200
           /\ response.recommendations = <<>>
           /\ "message" \in DOMAIN response.metadata

\* a parameter of the request is outside what the endpoint admits
InvalidRequest(req) ==
    \/ req.limit < 1 \/ req.limit > 10
    \/ req.optimize_for \notin Modes
    \/ /\ req.architecture_preference # NoneStr
       /\ req.architecture_preference \notin {"x64", "Arm64"}
    \/ /\ req.max_eviction_rate # NoneStr
       /\ req.max_eviction_rate \notin KnownBuckets

\* C7: every request with an inadmissible limit, optimize_for, supplied
\* architecture_preference or supplied max_eviction_rate is answered with
\* 400, and no cache lookup, catalog fetch or pricing fetch has been made
\* for it.
C7_InvalidRejectedBeforeIO ==
    (Handled /\ InvalidRequest(request))
        => /\ response.status_code = 400
           /\ response.io = <<>>


PassesOtherConstraints(sku) ==
    PassesConstraints(sku, [criteria EXCEPT !.max_eviction_rate = NoneStr])

\* the call returned every candidate that _apply_constraints kept
ReturnedAllKept == result.status = "ok" /\ limit >= Len(pool)

\* C12: with max_eviction_rate set to one of the five buckets,
\* _apply_constraints keeps a candidate with a known bucket exactly when the
\* bucket is not after the ceiling in the risk order, and it keeps every
\* candidate whose eviction rate is missing or is a value outside the five
\* buckets.
C12_CeilingKeepsUnknown ==
    (ReturnedAllKept /\ criteria.max_eviction_rate \in KnownBuckets) =>
        \A i \in DOMAIN pool :
            PassesOtherConstraints(pool[i]) =>
                IF pool[i].eviction_rate \in KnownBuckets
                THEN pool[i].name \in ItemNames
                       <=> BucketIndex(pool[i].eviction_rate)
                             <= BucketIndex(criteria.max_eviction_rate)
                ELSE pool[i].name \in ItemNames

(***************************************************************************)
(* The numeric ceilings                                                    *)
(***************************************************************************)
\* the value is present and strictly greater than the ceiling
ExceedsCeiling(value, ceiling) ==
    ceiling # None /\ value # None /\ value > ceiling

\* the call lists the spec
IsListed(s) ==
    \E i \in DOMAIN call.items :
        call.items[i].name = s.name /\ call.items[i].family = s.family

\* the filters of filter_and_shape_items other than the two ceilings keep it
PassesOtherFilters(it) ==
    PassesFilters(it, [filter_call.params EXCEPT !.max_vcpus = None,
                                                !.max_memory_gb = None])

\* the items of the deduplicated pool that the ceilings may not exclude
UnderCeilings ==
    {i \in DOMAIN filter_call.pool :
        /\ PassesOtherFilters(filter_call.pool[i])
        /\ ~ExceedsCeiling(ItemGet(filter_call.pool[i], "vCPUs", None),
                           filter_call.params.max_vcpus)
        /\ ~ExceedsCeiling(ItemGet(filter_call.pool[i], "memoryGB", None),
                           filter_call.params.max_memory_gb)}

ReturnedNames == {filter_call.items[i].vmSku : i \in DOMAIN filter_call.items}

\* the call returned every matching item: the page starts at 0 and is long
\* enough, and the name is among the selected fields
IsUnpaged ==
    /\ filter_call.params.offset = 0
    /\ filter_call.params.limit >= Len(item_list)
    /\ filter_call.params.fields = NoneStr

\* C13: max_vcpus and max_memory_gb exclude a candidate only when its value
\* is present and strictly greater than the ceiling; a candidate whose value
\* is null is never excluded by the ceiling and a candidate whose value
\* equals the ceiling is kept.  In list_spot_skus the listed specs are the
\* spot specs of the requested GPU mode that do not exceed a ceiling; in
\* filter_and_shape_items the matching items are the items that pass the
\* other filters and do not exceed a ceiling.
C13_CeilingsExcludeOnlyGreater ==
    /\ call.status = "ok" =>
          \A s \in CatalogSpecs :
              s.has_gpu = call.params.include_gpu =>
                 (IsListed(s)
                    <=> /\ ~ExceedsCeiling(s.vcpus, call.params.max_vcpus)
                        /\ ~ExceedsCeiling(s.memory_gb,
                                           call.params.max_memory_gb))
    /\ filter_call.status = "ok" =>
          /\ filter_call.total = Cardinality(UnderCeilings)
          /\ IsUnpaged =>
                ReturnedNames = {filter_call.pool[i].vmSku : i \in UnderCeilings}

\* both functions were called with ceilings: list_spot_skus listed a spec
\* without vcpus and memory_gb and dropped one above the ceilings, and
\* filter_and_shape_items kept an item without numbers and an item whose
\* numbers equal the ceilings and dropped one above them
C13_Witness ==
    /\ call.status = "ok"
    /\ call.params.max_vcpus # None
    /\ \E s \in CatalogSpecs : s.vcpus = None /\ s.memory_gb = None /\ IsListed(s)
    /\ \E s \in CatalogSpecs :
          /\ s.has_gpu = call.params.include_gpu
          /\ s.vcpus > call.params.max_vcpus
          /\ ~IsListed(s)
    /\ filter_call.status = "ok"
    /\ filter_call.params.max_vcpus = 2
    /\ filter_call.params.max_memory_gb = 8
    /\ \E i \in UnderCeilings : ItemGet(filter_call.pool[i], "vCPUs", None) = None
    /\ \E i \in DOMAIN filter_call.pool :
          /\ PassesOtherFilters(filter_call.pool[i])
          /\ i \notin UnderCeilings

\* the other catalog and item list: a spec and an item whose numbers equal
\* the ceilings are kept
C13_WitnessEqual ==
    /\ call.status = "ok"
    /\ \E s \in CatalogSpecs :
          s.vcpus = call.params.max_vcpus /\ s.memory_gb = call.params.max_memory_gb
          /\ IsListed(s)
    /\ filter_call.status = "ok"
    /\ \E i \in UnderCeilings :
          /\ filter_call.pool[i].vCPUs = filter_call.params.max_vcpus
          /\ filter_call.pool[i].memoryGB = filter_call.params.max_memory_gb

(***************************************************************************)
(* The filter of the backend app                                           *)
(***************************************************************************)
FilterCalled == filter_call.status = "ok"

\* C14: filter_and_shape_items is GPU-exclusive: a call with gpu=true
\* returns only items whose gpu flag is true, and a call with gpu=false
\* returns only items whose gpu flag is false.
C14_FilterGpuExclusive ==
    (FilterCalled /\ filter_call.params.fields = NoneStr) =>
        \A i \in DOMAIN filter_call.items :
            ItemGet(filter_call.items[i], "gpu", FALSE) = filter_call.params.gpu

\* the positions of item_list that carry the name, in list order
Occurrences(name) ==
    {i \in DOMAIN item_list :
        DOMAIN item_list[i] # {} /\ ItemGet(item_list[i], "vmSku", NoneStr) = name}

FirstOccurrence(name) ==
    item_list[CHOOSE i \in Occurrences(name) : \A j \in Occurrences(name) : i <= j]

\* the positions whose number under key is neither None nor 0
WithNumber(name, key) ==
    {i \in Occurrences(name) : TruthyNumber(ItemGet(item_list[i], key, None))}

\* the number the merged record of name has to carry under key: the
\* first-seen one unless that is None or 0 and a later record has a number
MergedNumberIsRight(merged, name, key) ==
    IF WithNumber(name, key) = {}
    THEN /\ key \in DOMAIN merged <=> key \in DOMAIN FirstOccurrence(name)
         /\ ItemGet(merged, key, None) = ItemGet(FirstOccurrence(name), key, None)
    ELSE merged[key] =
           item_list[CHOOSE i \in WithNumber(name, key) :
                        \A j \in WithNumber(name, key) : i <= j][key]

OtherScalars == {"vmSku", "gpu", "supportsSpot", "vmSeries"}

\* C15: the deduplication step of filter_and_shape_items yields one record
\* for every non-empty name of the item list and no other record; the zone
\* set of the record is the union of the zone sets of the items with that
\* name; vCPUs and memoryGB are the first-seen values unless those are null
\* or zero, and then the values of the first later duplicate that has them;
\* every other scalar field is the first-seen one.
C15_DedupMergesByName ==
    FilterCalled =>
        /\ \A i, j \in DOMAIN filter_call.pool :
              i # j => filter_call.pool[i].vmSku # filter_call.pool[j].vmSku
        /\ {filter_call.pool[i].vmSku : i \in DOMAIN filter_call.pool}
             = {ItemGet(item_list[i], "vmSku", NoneStr) : i \in DOMAIN item_list}
                 \ {NoneStr, ""}
        /\ \A i \in DOMAIN filter_call.pool :
              /\ ElementsOf(filter_call.pool[i].zones)
                   = UNION {ElementsOf(ItemZones(item_list[k])) :
                              k \in Occurrences(filter_call.pool[i].vmSku)}
              /\ MergedNumberIsRight(filter_call.pool[i],
                                     filter_call.pool[i].vmSku, "vCPUs")
              /\ MergedNumberIsRight(filter_call.pool[i],
                                     filter_call.pool[i].vmSku, "memoryGB")
              /\ \A key \in OtherScalars :
                    /\ key \in DOMAIN filter_call.pool[i]
                         <=> key \in DOMAIN FirstOccurrence(filter_call.pool[i].vmSku)
                    /\ ItemGet(filter_call.pool[i], key, NoneStr)
                         = ItemGet(FirstOccurrence(filter_call.pool[i].vmSku),
                                   key, NoneStr)

\* a name was seen three times: the first record had no vCPUs and a zero
\* memoryGB, which the merged record took from a later one, and the zones of
\* the three records were united
C15_Witness ==
    /\ FilterCalled
    /\ Len(item_list) = 3
    /\ Len(filter_call.pool) = 1
    /\ Occurrences(filter_call.pool[1].vmSku) = {1, 2, 3}
    /\ ~TruthyNumber(ItemGet(item_list[1], "vCPUs", None))
    /\ ~TruthyNumber(ItemGet(item_list[1], "memoryGB", None))
    /\ TruthyNumber(ItemGet(item_list[2], "vCPUs", None))
    /\ TruthyNumber(ItemGet(item_list[2], "memoryGB", None))
    /\ TruthyNumber(ItemGet(item_list[3], "vCPUs", None))
    /\ ItemGet(item_list[3], "vCPUs", None) # ItemGet(item_list[2], "vCPUs", None)
    /\ filter_call.pool[1].vCPUs = ItemGet(item_list[2], "vCPUs", None)
    /\ filter_call.pool[1].memoryGB = ItemGet(item_list[2], "memoryGB", None)
    /\ \A k \in 1..3 :
          ElementsOf(ItemZones(item_list[k])) # ElementsOf(filter_call.pool[1].zones)

\* the zone ids that the zones parameter of the call asks for
RequestedZones ==
    CASE filter_call.params.zones = "1" -> {"1"}
      [] filter_call.params.zones = "1, 3" -> {"1", "3"}
      [] filter_call.params.zones = "1,2" -> {"1", "2"}
      [] filter_call.params.zones = "1 ,4" -> {"1", "4"}
      [] OTHER -> {}

ZoneRule(it) ==
    IF RequestedZones = {} THEN TRUE
    ELSE IF filter_call.params.zones_match = "all"
         THEN RequestedZones \subseteq ElementsOf(ItemZones(it))
         ELSE ElementsOf(ItemZones(it)) \cap RequestedZones # {}

\* the filters of filter_and_shape_items other than the zone filter keep it
PassesNonZoneFilters(it) ==
    PassesFilters(it, [filter_call.params EXCEPT !.zones = NoneStr])

ZoneMatches ==
    {i \in DOMAIN filter_call.pool :
        PassesNonZoneFilters(filter_call.pool[i]) /\ ZoneRule(filter_call.pool[i])}

\* C16: with no requested zones every candidate passes the zone filter; in
\* mode "any" a candidate passes exactly when its zone set intersects the
\* requested zone set; in mode "all" exactly when its zone set is a superset
\* of the requested zone set.
C16_ZoneMatching ==
    FilterCalled =>
        /\ filter_call.total = Cardinality(ZoneMatches)
        /\ IsUnpaged =>
              ReturnedNames = {filter_call.pool[i].vmSku : i \in ZoneMatches}

\* a call in mode "all" kept an item whose zones hold every requested zone
\* and dropped one that holds only some of them
C16_Witness ==
    /\ FilterCalled
    /\ filter_call.params.zones_match = "all"
    /\ Cardinality(RequestedZones) = 2
    /\ ZoneMatches # {}
    /\ \E i \in DOMAIN filter_call.pool :
          /\ PassesNonZoneFilters(filter_call.pool[i])
          /\ ElementsOf(ItemZones(filter_call.pool[i])) \cap RequestedZones # {}
          /\ i \notin ZoneMatches

(***************************************************************************)
(* The normalizer                                                          *)
(***************************************************************************)
\* C17: every spec that _extract_sku_specs produces and every item that
\* list_spot_skus returns has a non-empty name: a raw record whose name is
\* missing, null or empty never reaches the candidate pool.
C17_NamesNonEmpty ==
    /\ (normalized # NotExtracted /\ normalized.compute_client # NoSpec)
          => Truthy(normalized.compute_client.name)
    /\ listed.status = "ok" =>
          \A i \in DOMAIN listed.items : Truthy(listed.items[i].name)

Extracted == normalized # NotExtracted

\* the record carries a low-priority capability whose value is the boolean
\* true or the text "true" or "1" in any letter case
HasTruthySpotFlag ==
    \E i \in DOMAIN raw_sku.capabilities :
        /\ lower(raw_sku.capabilities[i].name) = "lowprioritycapable"
        /\ \/ raw_sku.capabilities[i].value = PyTrue
           \/ /\ raw_sku.capabilities[i].value[1] = "str"
              /\ lower(raw_sku.capabilities[i].value[2]) \in {"true", "1"}

\* the record has a "not available for subscription" restriction whose
\* location list is empty or holds the target region, in any letter case
RestrictedInTargetRegion ==
    \E i \in DOMAIN raw_sku.restrictions :
        /\ lower(raw_sku.restrictions[i].reason_code) = "notavailableforsubscription"
        /\ \/ raw_sku.restrictions[i].locations = <<>>
           \/ lower(target_region)
                \in {lower(raw_sku.restrictions[i].locations[j]) :
                       j \in DOMAIN raw_sku.restrictions[i].locations}

\* C18: the normalizers of the API (ComputeClient and Client) return a spec
\* only for a record with a truthy low-priority flag and without a "not
\* available for subscription" restriction that is unlocated or lists the
\* target region; a virtual machine record with the flag that is not
\* B-series is not rejected for a restriction that lists other regions only.
C18_SpotAndUnrestrictedOnly ==
    Extracted =>
        \A client \in {"compute_client", "client"} :
            /\ normalized[client] # NoSpec
                 => HasTruthySpotFlag /\ ~RestrictedInTargetRegion
            /\ (/\ raw_sku.resource_type = "virtualMachines"
                /\ HasTruthySpotFlag
                /\ ~RestrictedInTargetRegion
                /\ ~HasBSeriesPrefix(raw_sku.name, raw_sku.family))
                 => normalized[client] # NoSpec

\* a record restricted in another region only, with the flag sent as text
\* in upper case, was normalized into a spec by both normalizers
C18_Witness ==
    /\ Extracted
    /\ raw_sku.restrictions # <<>>
    /\ ~RestrictedInTargetRegion
    /\ raw_sku.capabilities[1].value = PyS("TRUE")
    /\ normalized.compute_client # NoSpec
    /\ normalized.client # NoSpec

(***************************************************************************)
(* Pricing                                                                 *)
(***************************************************************************)
\* the positions of the provider's rows for the SKU whose meter is a Spot
\* meter and whose product is not Windows, in the order of the rows
LinuxSpotPositions(name) ==
    {k \in DOMAIN PricingRows :
        /\ PricingRows[k].armSkuName = name
        /\ contains("Spot", PricingRows[k].meterName)
        /\ ~contains("Windows", PricingRows[k].productName)}

FirstLinuxSpotRow(name) ==
    PricingRows[CHOOSE k \in LinuxSpotPositions(name) :
                   \A j \in LinuxSpotPositions(name) : k <= j]

\* C19: an item that list_spot_skus returns with pricing carries the fields
\* of one provider row, the first Linux Spot row of its SKU in the order of
\* the provider; the values of other rows of the SKU never enter it; and
\* after a pricing fetch that succeeded an item whose SKU has no such row
\* has no price field.
C19_FirstLinuxSpotRowOnly ==
    call.status = "ok" =>
        \A i \in DOMAIN call.items :
            IF DOMAIN call.items[i] \cap PriceFields # {}
            THEN /\ LinuxSpotPositions(call.items[i].name) # {}
                 /\ call.items[i].price
                      = FirstLinuxSpotRow(call.items[i].name).retailPrice
                 /\ call.items[i].meter_name
                      = FirstLinuxSpotRow(call.items[i].name).meterName
                 /\ call.items[i].product_name
                      = FirstLinuxSpotRow(call.items[i].name).productName
                 /\ call.items[i].effective_start
                      = FirstLinuxSpotRow(call.items[i].name).effectiveStartDate
                 /\ "effective_end" \in DOMAIN call.items[i]
                      <=> Truthy(FirstLinuxSpotRow(call.items[i].name).effectiveEndDate)
            ELSE ("get_pricing" \in CallIo /\ call.pricing_up)
                    => LinuxSpotPositions(call.items[i].name) = {}

\* a call fetched prices for a SKU that has a Windows row before its first
\* Linux Spot row and cheaper and dearer Linux Spot rows after it
C19_Witness ==
    /\ call.status = "ok"
    /\ "get_pricing" \in CallIo
    /\ call.pricing_up
    /\ \E i \in DOMAIN call.items :
          /\ "price" \in DOMAIN call.items[i]
          /\ Cardinality(LinuxSpotPositions(call.items[i].name)) = 3
          /\ \E k \in LinuxSpotPositions(call.items[i].name) :
                PricingRows[k].retailPrice < call.items[i].price
          /\ \E k \in DOMAIN PricingRows :
                /\ PricingRows[k].armSkuName = call.items[i].name
                /\ k \notin LinuxSpotPositions(call.items[i].name)
                /\ \A j \in LinuxSpotPositions(call.items[i].name) : k < j

(***************************************************************************)
(* Properties of concurrent list_spot_skus calls.                          *)
(***************************************************************************)
\* the list that call t builds when it runs alone against an empty cache,
\* with the catalog and the pricing condition it met
CompleteList(t) ==
    list_spot_skus(EmptyCache, calls[t].raw_skus, TRUE, calls[t].pricing_up,
                   calls[t].params.region, calls[t].params.include_gpu,
                   calls[t].params.max_vcpus, calls[t].params.max_memory_gb,
                   calls[t].params.include_pricing,
                   calls[t].params.currency_code).items

Writers == {t \in DOMAIN calls : t \in Range(cache_history)}

\* call t returned the list object of a call that wrote the cache, the
\* object held that call's complete list at the return and holds it still
ReturnedComplete(t) ==
    /\ calls[t].ref \in Writers
    /\ calls[t].items = CompleteList(calls[t].ref)
    /\ lists[calls[t].ref] = calls[t].items

AllFinished == calls # <<>> /\ \A t \in DOMAIN calls : calls[t].pc = "done"

\* the entry is the list object of the last call that wrote it, and is
\* absent when no call wrote it or it expired after the last write
EntryIsLastWrite ==
    IF cache_history = <<>> \/ cache_history[Len(cache_history)] = 0
    THEN SharedKey \notin DOMAIN sku_cache
    ELSE /\ SharedKey \in DOMAIN sku_cache
         /\ sku_cache[SharedKey] = cache_history[Len(cache_history)]
         /\ lists[sku_cache[SharedKey]] = CompleteList(sku_cache[SharedKey])

\* C20: under every interleaving of list_spot_skus calls with one cache
\* key, every call that returns, returns a complete list: the whole list
\* that the call which built it builds alone, filtered, sorted and priced;
\* and once every call has finished, the cache entry of the key is the
\* complete list of the call that wrote last (no entry when it has expired
\* since, or when no call wrote).
C20_CompleteListsLastWriteWins ==
    /\ \A t \in DOMAIN calls :
          (calls[t].pc = "done" /\ calls[t].status = "ok")
              => ReturnedComplete(t)
    /\ AllFinished => EntryIsLastWrite

\* two calls missed the cache and built different lists, the call that
\* entered first wrote last, and the entry is its list
C20_Witness ==
    /\ cache_history = <<2, 1>>
    /\ AllFinished
    /\ calls[1].items # calls[2].items
    /\ calls[1].items # <<>>
    /\ calls[2].items # <<>>
    /\ "price" \in DOMAIN calls[2].items[1]
    /\ sku_cache[SharedKey] = 1

(***************************************************************************)
(* Further properties of the recommendation engine.                        *)
(***************************************************************************)
FilteredPrices == {Filtered[j].price : j \in DOMAIN Filtered} \ {None}

MinPrice == SetMin(FilteredPrices)
MaxPrice == SetMax(FilteredPrices)

\* the price score the claim gives a priced candidate of a pool with two
\* or more prices: score = (max_price - price) / (max_price - min_price)
IsNormalizedPrice(score, price) ==
    /\ score[1] * (MaxPrice - MinPrice) = (MaxPrice - price) * score[2]
    /\ price = MinPrice => score = <<1, 1>>
    /\ price = MaxPrice => score = <<0, 1>>

\* C22: over the filtered pool, a candidate without a price has price
\* score 0.5; when all priced candidates share one price every priced
\* candidate has 1.0; otherwise a priced candidate has
\* (max_price - price) / (max_price - min_price), the cheapest 1.0 and the
\* most expensive 0.0, and a lower price never has a lower score.
C22_PriceScore ==
    result.status = "ok" =>
        /\ \A i \in DOMAIN Items :
              IF Items[i].price = None
              THEN Items[i].score_breakdown.price_score = <<1, 2>>
              ELSE IF MaxPrice = MinPrice
              THEN Items[i].score_breakdown.price_score = <<1, 1>>
              ELSE IsNormalizedPrice(Items[i].score_breakdown.price_score,
                                     Items[i].price)
        /\ \A i, j \in DOMAIN Items :
              (Items[i].price # None /\ Items[j].price # None
                 /\ Items[i].price <= Items[j].price)
              => RatLE(Items[j].score_breakdown.price_score,
                       Items[i].score_breakdown.price_score)

\* a returned pool of three prices: one candidate scores strictly between
\* 0 and 1
C22_Witness ==
    /\ result.status = "ok"
    /\ Len(Items) = 3
    /\ Cardinality(FilteredPrices) = 3
    /\ \E i \in DOMAIN Items :
          /\ Items[i].score_breakdown.price_score[1] > 0
          /\ RatLT(Items[i].score_breakdown.price_score, <<1, 1>>)

\* a returned pool with an unpriced candidate beside two of equal price
C22_WitnessEqualPrices ==
    /\ result.status = "ok"
    /\ Len(Items) = 3
    /\ Cardinality(FilteredPrices) = 1
    /\ \E i \in DOMAIN Items : Items[i].price = None

(***************************************************************************)
(* The reasoning string.  The model keeps the phrases that the code joins  *)
(* with ", " behind "Recommended for "; no phrase is part of another, so   *)
(* the string contains a phrase exactly when the sequence holds it.        *)
(***************************************************************************)
SubScorePhrases ==
    {"excellent pricing", "good pricing", "very low eviction risk",
     "low eviction risk", "excellent value", "high availability",
     "ARM64 efficiency advantage"}

OptimizeTag ==
    [cost |-> "cost-optimized", reliability |-> "reliability-focused",
     performance |-> "performance-optimized"]

IsSubScorePhrase(phrase) == phrase \in SubScorePhrases

\* the sub-score phrases that qualify for a returned candidate, in order
QualifyingPhrases(item) ==
    SelectSeq(ReasoningParts(item, item.score_breakdown, criteria),
              IsSubScorePhrase)

\* the sub-score phrases of the reasoning string of a returned candidate
ReasonPhrases(item) == SelectSeq(item.recommendation_reason, IsSubScorePhrase)

\* C23 (as claimed): the reasoning string holds the first three qualifying
\* sub-score phrases at most, and whenever optimize_for is cost, reliability
\* or performance it also holds the tag of that mode, also when three or
\* more sub-score phrases qualified.
C23_ReasonCarriesTag ==
    result.status = "ok" =>
        \A i \in DOMAIN Items :
           /\ ReasonPhrases(Items[i])
                = SubSeq(QualifyingPhrases(Items[i]), 1,
                         Min(3, Len(QualifyingPhrases(Items[i]))))
           /\ criteria.optimize_for \in DOMAIN OptimizeTag
                => OptimizeTag[criteria.optimize_for]
                     \in Range(Items[i].recommendation_reason)

(***************************************************************************)
(* Completion of the scoring.                                              *)
(***************************************************************************)
\* the candidate has a price and non-negative vcpus and memory_gb
SatisfiesDataModel(sku) ==
    sku.price # None /\ sku.price >= 0 /\ sku.vcpus >= 0 /\ sku.memory_gb >= 0

\* C24 (as claimed): on a pool whose candidates all have a price, vcpus >= 0
\* and memory_gb >= 0, a candidate with vcpus = 0 and memory_gb = 0
\* included, recommend_top_skus completes and returns a scored record for
\* every candidate that passes the constraints, up to the limit; it never
\* raises.
C24_ScoringCompletes ==
    (result.status # "none"
       /\ \A i \in DOMAIN pool : SatisfiesDataModel(pool[i]))
    => /\ result.status = "ok"
       /\ Len(Items) = Min(limit, Len(Filtered))
       /\ \A i \in DOMAIN Items :
             "recommendation_score" \in DOMAIN Items[i]

(***************************************************************************)
(* The final score.                                                        *)
(***************************************************************************)
\* the weights are non-negative and sum to 1.0 (in hundredths)
WeightsAreNormalized ==
    /\ criteria.price_weight >= 0 /\ criteria.eviction_weight >= 0
    /\ criteria.performance_weight >= 0 /\ criteria.availability_weight >= 0
    /\ criteria.architecture_weight >= 0
    /\ criteria.price_weight + criteria.eviction_weight
         + criteria.performance_weight + criteria.availability_weight
         + criteria.architecture_weight = 100

\* the score of a returned candidate after the optimize_for blend and
\* before rounding, from its breakdown
BlendedScore(item) ==
    IF criteria.optimize_for = "cost"
    THEN Blend(WeightedTotal(item.score_breakdown, criteria),
               item.score_breakdown.price_score)
    ELSE IF criteria.optimize_for = "reliability"
    THEN Blend(WeightedTotal(item.score_breakdown, criteria),
               item.score_breakdown.eviction_score)
    ELSE IF criteria.optimize_for = "performance"
    THEN Blend(WeightedTotal(item.score_breakdown, criteria),
               item.score_breakdown.performance_score)
    ELSE WeightedTotal(item.score_breakdown, criteria)

\* C25: with non-negative weights that sum to 1.0, the final
\* recommendation_score of every returned candidate (0.7 x composite + 0.3 x
\* the chosen sub-score, or the composite for balanced) lies in [0.0, 1.0],
\* before and after rounding, for every pool and every optimize_for value.
C25_FinalScoreInUnitRange ==
    (result.status = "ok" /\ WeightsAreNormalized) =>
        \A i \in DOMAIN Items :
           /\ InUnit(BlendedScore(Items[i]))
           /\ Items[i].recommendation_score = Round3(BlendedScore(Items[i]))
           /\ 0 <= Items[i].recommendation_score
           /\ Items[i].recommendation_score <= 1000

\* a blend was applied, one returned candidate reaches 1.0 and another
\* stays below it
C25_Witness ==
    /\ result.status = "ok"
    /\ WeightsAreNormalized
    /\ criteria.optimize_for # "balanced"
    /\ \E i, j \in DOMAIN Items :
          /\ Items[i].recommendation_score = 1000
          /\ Items[j].recommendation_score < 1000
          /\ Items[j].recommendation_score > 0

(***************************************************************************)
(* The hard constraints.                                                   *)
(***************************************************************************)
\* whether the constraints other than the cost ceiling keep sku
PassesWithoutCostCeiling(sku) ==
    PassesConstraints(sku, [criteria EXCEPT !.max_hourly_cost = None])

\* C26: every candidate that recommend_top_skus returns has at least one
\* availability zone and at least min_availability_zones zones, and a known
\* price that is not above max_hourly_cost when the ceiling is set; a
\* candidate without zone data is never returned, and the cost ceiling never
\* excludes a candidate without a price.
C26_HardConstraintsHold ==
    result.status = "ok" =>
        /\ \A i \in DOMAIN Items :
              /\ Cardinality(Items[i].zones) >= 1
              /\ Cardinality(Items[i].zones) >= criteria.min_availability_zones
              /\ (criteria.max_hourly_cost # None /\ Items[i].price # None)
                    => Items[i].price <= criteria.max_hourly_cost
        /\ \A i \in DOMAIN pool :
              /\ pool[i].zones = {} => pool[i].name \notin ItemNames
              /\ (ReturnedAllKept /\ pool[i].price = None
                    /\ PassesWithoutCostCeiling(pool[i]))
                 => pool[i].name \in ItemNames

\* under a cost ceiling the call dropped a candidate above the ceiling and
\* one with fewer zones than required (none at all when one is required),
\* and returned one without a price
C26_Witness ==
    /\ ReturnedAllKept
    /\ criteria.max_hourly_cost # None
    /\ \E i \in DOMAIN pool :
          /\ pool[i].price # None
          /\ pool[i].price > criteria.max_hourly_cost
          /\ pool[i].name \notin ItemNames
    /\ \E i \in DOMAIN pool :
          /\ Cardinality(pool[i].zones) < criteria.min_availability_zones
          /\ pool[i].name \notin ItemNames
    /\ \E i \in DOMAIN Items : Items[i].price = None

(***************************************************************************)
(* Cached lists as snapshots.                                              *)
(***************************************************************************)
ScoreFields ==
    {"recommendation_score", "score_breakdown", "recommendation_reason"}

ReturnedOk(t) == calls[t].pc = "done" /\ calls[t].status = "ok"

\* call t returned the list object of another call from the cache
IsHit(t) == ReturnedOk(t) /\ calls[t].ref # t

\* C21: a list that was stored in the SKU cache stays as it was stored:
\* the list object that a call stored or received from the cache holds,
\* after every later operation, the records it held when the call returned,
\* in the same order and with the same fields; a cache hit returns the list
\* as the storing call stored it; and a run of recommend_top_skus on a
\* returned list writes recommendation_score, score_breakdown and
\* recommendation_reason into the records of its result only.
C21_CacheEntriesAreSnapshots ==
    /\ \A t \in DOMAIN calls :
          /\ ReturnedOk(t) => lists[calls[t].ref] = calls[t].items
          /\ IsHit(t) => calls[t].items = calls[calls[t].ref].items
    /\ SharedKey \in DOMAIN sku_cache
          => lists[sku_cache[SharedKey]] = calls[sku_cache[SharedKey]].items
    /\ \A t \in DOMAIN lists : \A i \in DOMAIN lists[t] :
          DOMAIN lists[t][i] \cap ScoreFields = {}
    /\ result.status = "ok"
          => \A i \in DOMAIN Items : ScoreFields \subseteq DOMAIN Items[i]

\* a stored list of two priced SKUs was scored under a ceiling that kept
\* one of them, a later call received the list from the cache, and the
\* entry is still there
C21_Witness ==
    /\ Len(calls) = 2
    /\ ReturnedOk(1) /\ calls[1].ref = 1
    /\ IsHit(2)
    /\ Len(lists[1]) = 2
    /\ \A i \in DOMAIN lists[1] : "price" \in DOMAIN lists[1][i]
    /\ result.status = "ok"
    /\ Len(Items) = 1
    /\ Len(pool) = 2
    /\ SharedKey \in DOMAIN sku_cache

(***************************************************************************)
(* The cache after a failed pricing fetch.                                 *)
(***************************************************************************)
\* the step is the expiry of an entry, not a call
IsExpiry ==
    /\ call' = call
    /\ Cardinality(DOMAIN sku_cache') < Cardinality(DOMAIN sku_cache)

\* the step is a call that got past the region check
IsCall == ~IsExpiry /\ call'.status # "ValueError"

\* the call of the step failed to fetch prices: its unpriced result is the
\* entry of its key
StoresUnpriced ==
    (IsCall /\ PricingFetchFailed')
    => /\ call'.status = "ok"
       /\ KeyOf(call'.params) \in DOMAIN sku_cache'
       /\ sku_cache'[KeyOf(call'.params)] = call'.items
       /\ \A i \in DOMAIN call'.items :
             DOMAIN call'.items[i] \cap PriceFields = {}

\* an entry stays as it is until it expires
EntryKept ==
    \A k \in DOMAIN sku_cache :
       IF k \in DOMAIN sku_cache' THEN sku_cache'[k] = sku_cache[k]
       ELSE IsExpiry

\* a call that finds an entry for its key returns it, fetches nothing and
\* leaves the cache as it is
HitReturnsEntry ==
    (IsCall /\ KeyOf(call'.params) \in DOMAIN sku_cache)
    => /\ call'.status = "ok"
       /\ call'.items = sku_cache[KeyOf(call'.params)]
       /\ call'.io = <<"get_cached">>
       /\ sku_cache' = sku_cache

\* C27: list_spot_skus stores its result whether or not the pricing fetch
\* succeeded: a call with include_pricing=true whose pricing fetch failed
\* leaves its unpriced result as the entry of its key, the entry stays
\* unchanged until it expires, and every call that finds it returns it
\* and contacts neither the catalog source nor the pricing source.
C27_UnpricedResultIsCached ==
    [][StoresUnpriced /\ EntryKept /\ HitReturnsEntry]_vars

\* a call returned an unpriced list from the cache although the pricing
\* source was up again and has a price for one of the SKUs
C27_Witness ==
    /\ call.status = "ok"
    /\ call.io = <<"get_cached">>
    /\ call.params.include_pricing
    /\ call.pricing_up
    /\ call.items # <<>>
    /\ \A i \in DOMAIN call.items :
          DOMAIN call.items[i] \cap PriceFields = {}
    /\ \E i \in DOMAIN call.items :
          call.items[i].name
            \in DOMAIN get_pricing_for_skus(call.items, Eastus)

(***************************************************************************)
(* The retries of PricingClient._make_request.                             *)
(***************************************************************************)
RequestFinished == request_state.status \in {"returned", "raised"}

LastAttempt == attempts[Len(attempts)]

\* the attempts made so far and the sleeps between them are those of the
\* retry rule, and the call has ended as the last attempt tells
RetryRuleHolds ==
    /\ Len(attempts) <= 4
    /\ \A i \in 1 .. Len(attempts) - 1 : attempts[i] \in RetriedOutcomes
    /\ Len(waits) <= 3
    /\ \A i \in DOMAIN waits : waits[i] = <<1, 2, 4>>[i]
    /\ request_state.status \in {"sleeping", "returned", "raised"}
          => /\ attempts # <<>>
             /\ Len(waits) = IF request_state.status = "sleeping"
                             THEN Len(attempts) ELSE Len(attempts) - 1
             /\ (request_state.status = "returned")
                   <=> (LastAttempt = "success")
             /\ (request_state.status = "raised")
                   <=> \/ LastAttempt \in {"http_4xx", "other_error"}
                       \/ (LastAttempt \in RetriedOutcomes
                             /\ Len(attempts) = 4)

\* C28: _make_request always terminates, after at most MAX_RETRIES + 1 = 4
\* attempts: a 5xx response, a connect error or a timeout is retried at most
\* 3 times, after waits of 1, 2 and 4 seconds, and then raised; a 4xx
\* response is raised at once without a retry; the first successful
\* response is returned at once.
C28_RequestTerminates == []RetryRuleHolds /\ <>RequestFinished

\* the call raised after four attempts that failed in the three retried
\* ways, having slept 1, 2 and 4 seconds
C28_Witness ==
    /\ request_state.status = "raised"
    /\ Len(attempts) = 4
    /\ {attempts[i] : i \in DOMAIN attempts} = RetriedOutcomes
    /\ waits = <<1, 2, 4>>

(***************************************************************************)
(* The token cache of AzureClient.                                         *)
(***************************************************************************)
\* a step that is a call of get_management_token
IsTokenCall == token_call' # token_call \/ issued' # issued

\* before the step a token is cached and the time is more than 300 seconds
\* before its expiry
FarFromExpiry ==
    /\ _token_cache # 0
    /\ _token_expires_at # 0
    /\ _token_expires_at - clock > 300

\* the call returned the cached token and asked the credential for nothing
ReturnsCachedToken ==
    /\ token_call'.status = "returned"
    /\ token_call'.token = _token_cache
    /\ ~token_call'.acquired
    /\ UNCHANGED <<_token_cache, _token_expires_at, issued>>

\* the call asked the credential; the token it got is one never issued
\* before, is returned and replaces the cached token and expiry; when the
\* credential raised, so did the call
AcquiresFreshToken ==
    /\ token_call'.acquired
    /\ \/ /\ token_call'.status = "returned"
          /\ token_call'.token > issued
          /\ token_call'.token # _token_cache
          /\ _token_cache' = token_call'.token
          /\ _token_expires_at' - clock \in TokenLifetimes
       \/ /\ token_call'.status = "raised"
          /\ UNCHANGED <<_token_cache, _token_expires_at, issued>>

\* C29: get_management_token returns the cached token only when
\* force_refresh is false, a token is cached and the current time is more
\* than 300 seconds before that token's expiry; in every other case (no
\* token, within 5 minutes of the expiry or past it, force_refresh, after
\* close) it acquires a fresh token from the credential, replaces the
\* cached token and expiry with it and returns it.
C29_TokenCache == [][IsTokenCall => IF ~token_call'.force_refresh /\ FarFromExpiry THEN ReturnsCachedToken ELSE AcquiresFreshToken]_vars

\* a call without force_refresh exactly 300 seconds before the expiry of
\* the cached token acquired a fresh one
C29_Witness ==
    /\ token_call.status = "returned"
    /\ ~token_call.force_refresh
    /\ token_call.cache_before # 0
    /\ token_call.at = token_call.expires_before - 300
    /\ token_call.acquired
    /\ token_call.token # token_call.cache_before

\* a call returned the cached token 100 seconds before the buffer began
C29_WitnessCached ==
    /\ token_call.status = "returned"
    /\ ~token_call.acquired
    /\ token_call.token = token_call.cache_before
    /\ token_call.at = token_call.expires_before - 400

(***************************************************************************)
(* The singletons of DependencyContainer.                                  *)
(***************************************************************************)
KindOf(op) ==
    CASE op = "create_azure_client" -> "AzureClient"
      [] op = "create_compute_client" -> "ComputeClient"
      [] op = "create_pricing_client" -> "PricingClient"
      [] op = "create_sku_service" -> "SkuService"
      [] OTHER -> "none"

\* no cleanup among the calls i .. j
SameEpoch(i, j) == \A k \in i .. j : container_log[k].op # "cleanup"

\* the number of objects of the kind that call i constructed
MadeOf(i, kind) ==
    Cardinality({n \in DOMAIN container_log[i].made : container_log[i].made[n] = kind})

\* the calls with an op of ops return an instance of their kind, the same
\* one between two cleanups and another one after a cleanup, and between
\* two cleanups at most one object of each of these kinds is constructed
SingletonsOf(ops) ==
    /\ \A i \in DOMAIN container_log :
          container_log[i].op \in ops
             => /\ container_log[i].status = "returned"
                /\ container_log[i].returned \in DOMAIN constructed
                /\ constructed[container_log[i].returned] = KindOf(container_log[i].op)
                /\ MadeOf(i, KindOf(container_log[i].op)) <= 1
    /\ \A i, j \in DOMAIN container_log :
          (i < j /\ container_log[i].op \in ops /\ container_log[j].op \in ops)
             => /\ (container_log[i].op = container_log[j].op)
                      => (SameEpoch(i, j) <=> container_log[i].returned = container_log[j].returned)
                /\ SameEpoch(i, j)
                      => \A op \in ops : MadeOf(i, KindOf(op)) + MadeOf(j, KindOf(op)) <= 1

\* after cleanup the four references are None
ClearedByCleanup ==
    (container_log # <<>> /\ container_log[Len(container_log)].op = "cleanup")
       => /\ _azure_client = 0
          /\ _compute_client = 0
          /\ _pricing_client = 0
          /\ _sku_service = 0

\* C30: DependencyContainer keeps singletons over any sequence of create_*
\* calls: between construction and cleanup at most one AzureClient, one
\* ComputeClient, one PricingClient and one SkuService are constructed and
\* every create_* call returns the same instance of its kind; after cleanup
\* all four references are cleared, and a later create_* call constructs a
\* fresh instance.
C30_SingletonsKept ==
    /\ SingletonsOf({"create_azure_client", "create_compute_client", "create_pricing_client", "create_sku_service"})
    /\ ClearedByCleanup

\* the same for the three clients alone
ClientSingletonsKept ==
    /\ SingletonsOf({"create_azure_client", "create_compute_client", "create_pricing_client"})
    /\ ClearedByCleanup

\* no SkuService is ever constructed and no create_sku_service call returns
SkuServiceNeverBuilt ==
    /\ _sku_service = 0
    /\ \A n \in DOMAIN constructed : constructed[n] # "SkuService"
    /\ \A i \in DOMAIN container_log :
          container_log[i].op = "create_sku_service"
             => container_log[i].status = "raised"
====
